---------------------------- MODULE Spec2Model ----------------------------
(***************************************************************************)
(* A model of the plugin runtime of backend/core/plugins: dependency       *)
(* resolution (discovery.py), the plugin lifecycle (interfaces.py), the    *)
(* plugin manager (manager.py), the service container (container.py) and   *)
(* the event bus (events.py).                                              *)
(*                                                                         *)
(* Each component has its own specification over the shared variables:     *)
(*   SpecDeps       PluginDiscovery.resolve_dependencies on bounded inputs *)
(*   SpecPlugin     the lifecycle methods of one IPlugin, called in any     *)
(*                  order, one status assignment per step                  *)
(*   SpecMgr        PluginManager, its calls made one after another        *)
(*   SpecMgrConc    PluginManager, its calls overlapping at await points   *)
(*   SpecContainer  ServiceContainer, its calls made one after another     *)
(*   SpecBus        EventBus, its publish calls overlapping at the awaits  *)
(*                  of asynchronous handlers                               *)
(***************************************************************************)
EXTENDS Integers, Sequences, FiniteSets, TLC

VARIABLES
    discovered,   \* PluginDiscovery._discovered_plugins: name -> manifest.dependencies
    request,      \* the plugin_names argument of resolve_dependencies
    resolved,     \* the outcome of the resolve_dependencies call ("idle" before it)
    pmeta,        \* one IPlugin: metadata.hot_reload_supported, a required schema key
    plugin,       \* one IPlugin: _status and _config (the set of keys it holds)
    pcall,        \* the call running on that plugin: method, position, impl calls made, outcome
    world,        \* per discovered plugin: the interface its class implements, metadata.hot_reload_supported
    overlap,      \* whether calls on the manager may overlap at their await points
    plugins,            \* PluginManager._plugins: name -> instance (0: absent)
    plugin_classes,     \* PluginManager._plugin_classes (its keys)
    plugin_configs,     \* PluginManager._plugin_configs (its keys)
    load_order,         \* PluginManager._load_order
    agents,             \* PluginManager._agents: name -> instance (0: absent)
    embeddings,         \* PluginManager._embeddings
    memory_providers,   \* PluginManager._memory_providers
    shutdown_initiated, \* PluginManager._shutdown_initiated
    registered,         \* the container's entries made by register_instance: {[key, gen, inst]}
    loaded_modules,     \* PluginDiscovery._loaded_modules: name -> [state, gen]
    insts,              \* every plugin instance created so far: [name, gen, status]
    event_history,      \* EventBus._event_history: the events published, in order
    tasks,              \* the calls on the manager: each coroutine's position and locals, and
                        \* what the call did (events published, stops called, instances made,
                        \* the step a load failed at) and what it found when it began (the
                        \* names loaded, the load order, the loaded instances that were
                        \* ACTIVE, the shutdown flag)
    ncalls,             \* number of calls made on the manager
    health_task,        \* PluginManager._health_check_task: the position of the loop,
                        \* whether cancel() was called on it, how the task ended
    cworld,       \* per service class: the parameters of its __init__, [type, default] each
    services,     \* ServiceContainer._services: type -> descriptor [lifetime, kind, inst]
    singletons,   \* ServiceContainer._singletons: type -> instance (0: absent)
    building,     \* ServiceContainer._building
    created,      \* every service instance made so far: [cls, args]
    returned,     \* per type: the instances resolve has returned since its latest registration
    built,        \* per type: how often its implementation was constructed since then
    deadlocked,   \* the thread is blocked on ServiceContainer._lock, which it holds
    last,         \* the latest call on the container and its outcome: what it returned or
                  \* raised, how often it met a type in _building, how often it fell
                  \* back on a parameter's default
    nops,         \* number of calls made on the container
    scoped_instances, \* per scope: ScopedServiceContainer._scoped_instances (0: absent)
    disposals,    \* the instances whose dispose hook a scope has called, in order
    threads,      \* the threads inside resolve: each one's position and locals
    capacity,         \* EventBus._max_history_size
    handlers,         \* EventBus._handlers: event type -> handlers, highest priority first
    global_handlers,  \* EventBus._global_handlers
    stats,            \* EventBus._stats
    pubs,             \* the publish calls: each coroutine's position and locals
                      \* (snapshot: handlers_to_execute as collected; todo: what is left of it)
    calls,            \* every handler invocation so far: [pub, h, what], in order
    published,        \* every event published since the history was last cleared, in order
    nsubs,            \* number of subscribe and subscribe_global calls made
    unsub,            \* the unsubscribe call made since the latest subscription: its event
                      \* type and callback, what it returned, how many publish calls had begun
    cm_defaults,      \* ConfigManager._defaults
    cm_config,        \* ConfigManager._config
    cm_shared,        \* the top-level keys k for which _config[k] is the very dict _defaults[k]
    cm_sources,       \* ConfigManager._sources
    cm_watchers,      \* ConfigManager._watchers: [id, raises] each
    cm_file_watchers, \* the keys of ConfigManager._file_watchers
    files,            \* the file system: path -> parsed content of the file, or NoFile
    environ,          \* os.environ: the variables set, [name, value] each
    notified,         \* the watcher calls made by the latest operation: [watcher, key, old, new]
    cm_last,          \* the latest step (an operation on the configuration manager or a
                      \* write to a file) and the configuration it found
    cm_nops,          \* number of operations made on the configuration manager
    watch_tasks,      \* the values of ConfigManager._file_watchers: per path the position of
                      \* the loop, whether cancel() was called on it, how the task ended
    cm_shutdown,      \* the calls of ConfigManager.shutdown: position, calls made
    cm_lock,          \* ConfigManager._lock: the reload that holds it (0: free) and those
                      \* that wait for it, in order
    reloads,          \* the load_all and reload_source calls that may overlap: each
                      \* coroutine's position and locals
    cm_event_bus,     \* ConfigManager._event_bus: "none" (None), "B" (a bus made by the
                      \* caller) or "global" (the bus get_event_bus() returns)
    bus_events        \* per event bus: the events published on it, in order

depVars == <<request, resolved>>
plugVars == <<pmeta, plugin, pcall>>
mgrVars == <<world, overlap, plugins, plugin_classes, plugin_configs, load_order, agents,
             embeddings, memory_providers, shutdown_initiated, registered, loaded_modules,
             insts, event_history, tasks, ncalls, health_task>>
contVars == <<cworld, services, singletons, building, created, returned, built, deadlocked,
              last, nops, scoped_instances, disposals, threads>>
busVars == <<capacity, handlers, global_handlers, stats, pubs, calls, published, nsubs, unsub>>
cfgVars == <<cm_defaults, cm_config, cm_shared, cm_sources, cm_watchers, cm_file_watchers, files,
             environ, notified, cm_last, cm_nops>>
bgVars == <<watch_tasks, cm_shutdown, cm_lock, reloads, cm_event_bus, bus_events>>
vars == <<discovered, depVars, plugVars, mgrVars, contVars, busVars, cfgVars, bgVars>>

\* what the steps of one component leave alone: the other components
DepsFrame == UNCHANGED <<plugVars, mgrVars, contVars, busVars, cfgVars, bgVars>>
PlugFrame == UNCHANGED <<discovered, depVars, mgrVars, contVars, busVars, cfgVars, bgVars>>
MgrFrame == UNCHANGED <<discovered, depVars, plugVars, contVars, busVars, cfgVars, bgVars>>
ContFrame == UNCHANGED <<discovered, depVars, plugVars, mgrVars, busVars, cfgVars, bgVars>>
ConfigFrame == UNCHANGED <<discovered, depVars, plugVars, mgrVars, contVars, busVars, bgVars>>
\* the event bus owns event_history; the rest of the manager is left alone
BusFrame ==
    UNCHANGED <<discovered, depVars, plugVars, contVars, world, overlap, plugins, plugin_classes,
                plugin_configs, load_order, agents, embeddings, memory_providers,
                shutdown_initiated, registered, loaded_modules, insts, tasks, ncalls,
                health_task, cfgVars, bgVars>>

(***************************************************************************)
(* Bounds                                                                  *)
(***************************************************************************)
MaxDeps == 2      \* longest manifest.dependencies list
MaxReq == 2       \* longest plugin_names list handed to resolve_dependencies
MaxCalls == 3     \* calls made on the plugin manager in one behaviour, one after another
MaxOverlapCalls == 2  \* calls made on the plugin manager in one behaviour when they may overlap
MaxTasks == 2     \* calls on the plugin manager that may be in progress together
MaxContainerOps == 4  \* calls made on the service container in one behaviour
MaxScopes == 2        \* scopes made of one service container
MaxThreads == 2       \* threads that call resolve on one service container together
MaxShutdownCalls == 2 \* calls of ConfigManager.shutdown in one behaviour
MaxRounds == 2        \* passes of the health-monitor loop in one behaviour
MaxReloads == 2       \* load_all and reload_source calls that may be in progress together
MaxSets == 1          \* calls of set while reloads are in progress
MaxSubscriptions == 2 \* subscribe and subscribe_global calls made on the event bus
MaxPublishes == 2     \* publish calls made on the event bus, which may all overlap
MaxCapacity == 2      \* largest _max_history_size an event bus is given
MaxCallbacks == 2     \* callables that are subscribed, each possibly more than once
MaxCallbackSubs == 3  \* subscribe and subscribe_global calls made with those callables
MaxConfigOps == 4     \* operations made on the configuration manager in one behaviour
MaxWatchers == 2      \* watch calls made on the configuration manager

(***************************************************************************)
(* Helpers                                                                 *)
(***************************************************************************)
\* the elements of a set, in some order
RECURSIVE SetToSeq(_)
SetToSeq(S) ==
    IF S = {} THEN <<>> ELSE LET x == CHOOSE y \in S : TRUE IN <<x>> \o SetToSeq(S \ {x})

\* EventBus.__init__: self._max_history_size = 1000
max_history_size == 1000

Range(s) == {s[i] : i \in 1..Len(s)}

SeqsUpTo(S, n) == UNION {[1..k -> S] : k \in 0..n}

\* lists without repeated entries
DistinctSeqsUpTo(S, n) == {s \in SeqsUpTo(S, n) : Cardinality(Range(s)) = Len(s)}

\* index of the first occurrence of x in s (0 when absent)
IndexOf(s, x) == IF x \in Range(s) THEN CHOOSE i \in 1..Len(s) : s[i] = x /\ \A j \in 1..(i-1) : s[j] # x ELSE 0

(***************************************************************************)
(* Plugin discovery: dependency resolution (discovery.py)                  *)
(***************************************************************************)
\* Every name a manifest or a request may mention. A name that is not in
\* DOMAIN discovered is a plugin that was not discovered.
Names == {"A", "B", "C"}

NoErr == [kind |-> "none", name |-> "none"]

\* local state of one resolve_dependencies call: visited, temp_visited, result,
\* and the PluginDependencyError being propagated (NoErr while none is)
ResolveStart == [visited |-> {}, temp |-> {}, result |-> <<>>, err |-> NoErr]

RECURSIVE visit(_, _, _)
RECURSIVE visitDeps(_, _, _, _)

\* visit with result.append(plugin_name) moved before the loop over the dependencies
visit_appendFirst(disc, n, st) ==
    IF st.err # NoErr THEN st
    ELSE IF n \in st.temp THEN [st EXCEPT !.err = [kind |-> "circular", name |-> n]]
    ELSE IF n \in st.visited THEN st
    ELSE IF n \notin DOMAIN disc THEN [st EXCEPT !.err = [kind |-> "not_found", name |-> n]]
    ELSE LET s1 == [st EXCEPT !.temp = @ \cup {n}, !.result = Append(@, n)]
             s2 == visitDeps(disc, disc[n], 1, s1)
         IN  IF s2.err # NoErr THEN s2
             ELSE [s2 EXCEPT !.temp = @ \ {n}, !.visited = @ \cup {n}]

\* visit with visited.add(plugin_name) moved before the loop over the dependencies
\* and the visited test made first: a back edge then returns silently
visit_markFirst(disc, n, st) ==
    IF st.err # NoErr THEN st
    ELSE IF n \in st.visited THEN st
    ELSE IF n \in st.temp THEN [st EXCEPT !.err = [kind |-> "circular", name |-> n]]
    ELSE IF n \notin DOMAIN disc THEN [st EXCEPT !.err = [kind |-> "not_found", name |-> n]]
    ELSE LET s1 == [st EXCEPT !.temp = @ \cup {n}, !.visited = @ \cup {n}]
             s2 == visitDeps(disc, disc[n], 1, s1)
         IN  IF s2.err # NoErr THEN s2
             ELSE [s2 EXCEPT !.temp = @ \ {n}, !.result = Append(@, n)]

\* the nested function visit(plugin_name) of resolve_dependencies
visit(disc, n, st) ==
    IF st.err # NoErr THEN st
    ELSE IF n \in st.temp THEN [st EXCEPT !.err = [kind |-> "circular", name |-> n]]
    ELSE IF n \in st.visited THEN st
    ELSE IF n \notin DOMAIN disc THEN [st EXCEPT !.err = [kind |-> "not_found", name |-> n]]
    ELSE LET s1 == [st EXCEPT !.temp = @ \cup {n}]
             s2 == visitDeps(disc, disc[n], 1, s1)
         IN  IF s2.err # NoErr THEN s2
             ELSE [s2 EXCEPT !.temp = @ \ {n},
                             !.visited = @ \cup {n},
                             !.result = Append(@, n)]

\* for dep in manifest.dependencies: visit(dep)
visitDeps(disc, deps, i, st) ==
    IF i > Len(deps) \/ st.err # NoErr THEN st
    ELSE visitDeps(disc, deps, i + 1, visit(disc, deps[i], st))

RECURSIVE visitRequested(_, _, _, _)
\* for plugin_name in plugin_names: if plugin_name not in visited: visit(plugin_name)
visitRequested(disc, names, i, st) ==
    IF i > Len(names) \/ st.err # NoErr THEN st
    ELSE visitRequested(disc, names, i + 1,
                        IF names[i] \notin st.visited THEN visit(disc, names[i], st) ELSE st)

\* resolve_dependencies that returns the requested names as they were given
resolve_dependencies_asGiven(disc, names) ==
    [status |-> "returned", order |-> names, err |-> NoErr]

\* resolve_dependencies(plugin_names): the order returned, or the error raised
resolve_dependencies(disc, names) ==
    LET st == visitRequested(disc, names, 1, ResolveStart)
    IN  IF st.err = NoErr
        THEN [status |-> "returned", order |-> st.result, err |-> NoErr]
        ELSE [status |-> "raised", order |-> <<>>, err |-> st.err]

Idle == [status |-> "idle", order |-> <<>>, err |-> NoErr]

\* manifests of the discovered plugins: C may or may not have been discovered
ManifestSets ==
    UNION {[D -> DistinctSeqsUpTo(Names, MaxDeps)] : D \in {Names, Names \ {"C"}}}

\* the variables of the other components, at rest
PluginAtRest ==
    /\ pmeta = [hot_reload_supported |-> TRUE, required |-> FALSE]
    /\ plugin = [status |-> "inactive", config |-> {}]
    /\ pcall = [op |-> "none", pc |-> "idle", log |-> <<>>, res |-> "none", arg |-> {},
               pre |-> [status |-> "inactive", config |-> {}]]

DepsAtRest ==
    /\ request = <<>>
    /\ resolved = Idle

NoTask ==
    [op |-> "none", arg |-> <<>>, pc |-> "idle", cur |-> "none", inst |-> 0, queue |-> <<>>,
     res |-> "none", failed_at |-> "none", pre |-> {}, order |-> <<>>, active |-> {},
     initiated |-> FALSE, was |-> <<>>, results |-> <<>>, outcome |-> <<>>,
     npub |-> 0, nstop |-> 0, ninst |-> 0]

\* no task, or the task of a loop: pc is the await the loop is suspended at
NoLoop == [pc |-> "none", cancel |-> FALSE, outcome |-> "none", rounds |-> 0]

NoShutdown == [pc |-> "idle", calls |-> 0]

ManagerAtRest ==
    /\ health_task = NoLoop
    /\ world = [kind |-> [n \in {} |-> "extension"], hot |-> [n \in {} |-> TRUE]]
    /\ overlap = FALSE
    /\ plugins = [n \in {} |-> 0]
    /\ plugin_classes = {}
    /\ plugin_configs = {}
    /\ load_order = <<>>
    /\ agents = [n \in {} |-> 0]
    /\ embeddings = [n \in {} |-> 0]
    /\ memory_providers = [n \in {} |-> 0]
    /\ shutdown_initiated = FALSE
    /\ registered = {}
    /\ loaded_modules = [n \in {} |-> [state |-> "none", gen |-> 0]]
    /\ insts = <<>>
    /\ event_history = <<>>
    /\ tasks = [t \in {} |-> NoTask]
    /\ ncalls = 0

NoCall ==
    [op |-> "none", type |-> "none", scope |-> 0, ok |-> TRUE, val |-> 0, err |-> <<>>,
     hits |-> 0, defaults_used |-> 0]

ContainerAtRest ==
    /\ cworld = [T \in {} |-> <<>>]
    /\ services = [T \in {} |-> 0]
    /\ singletons = [T \in {} |-> 0]
    /\ building = {}
    /\ created = <<>>
    /\ returned = [T \in {} |-> {}]
    /\ built = [T \in {} |-> 0]
    /\ deadlocked = FALSE
    /\ last = NoCall
    /\ nops = 0
    /\ scoped_instances = <<>>
    /\ disposals = <<>>
    /\ threads = <<>>

NoPublish ==
    [pc |-> "idle", event |-> [type |-> "none", id |-> 0], snapshot |-> <<>>, todo |-> <<>>,
     remove |-> <<>>]

\* the event buses a configuration manager may meet: one made by its caller,
\* and the module's _global_event_bus
BusNames == {"B", "global"}

NoEvents == [b \in BusNames |-> <<>>]

NoStats == [events_published |-> 0, handlers_executed |-> 0, errors |-> 0]

NoUnsub == [type |-> "none", id |-> 0, result |-> FALSE, npub |-> 0]

BusAtRest ==
    /\ capacity = max_history_size
    /\ handlers = [t \in {} |-> <<>>]
    /\ global_handlers = <<>>
    /\ stats = NoStats
    /\ pubs = [p \in {} |-> NoPublish]
    /\ calls = <<>>
    /\ published = <<>>
    /\ nsubs = 0
    /\ unsub = NoUnsub

\* Python's None, where a value is expected
None == [leaf |-> "None"]

NoConfigOp == [op |-> "none", key |-> <<>>, old |-> <<>>]

\* a configuration manager nobody uses
ConfigAtRest ==
    /\ cm_defaults = <<>>
    /\ cm_config = <<>>
    /\ cm_shared = {}
    /\ cm_sources = <<>>
    /\ cm_watchers = <<>>
    /\ cm_file_watchers = {}
    /\ files = <<>>
    /\ environ = {}
    /\ notified = <<>>
    /\ cm_last = NoConfigOp
    /\ cm_nops = 0
    /\ watch_tasks = <<>>
    /\ cm_shutdown = NoShutdown
    /\ cm_lock = [holder |-> 0, waiting |-> <<>>]
    /\ reloads = <<>>
    /\ cm_event_bus = "none"
    /\ bus_events = NoEvents

InitDeps ==
    /\ discovered \in ManifestSets
    /\ request \in SeqsUpTo(Names, MaxReq)
    /\ resolved = Idle
    /\ PluginAtRest
    /\ ManagerAtRest
    /\ ContainerAtRest
    /\ BusAtRest
    /\ ConfigAtRest

\* one call of resolve_dependencies(request)
Resolve ==
    /\ resolved.status = "idle"
    /\ resolved' = resolve_dependencies(discovered, request)
    /\ UNCHANGED <<discovered, request>>
    /\ DepsFrame

NextDeps == Resolve

SpecDeps == InitDeps /\ [][NextDeps]_vars

(***************************************************************************)
(* Graph notions the claims about dependency resolution are stated with    *)
(***************************************************************************)
\* n -> d when d is listed in the manifest of the discovered plugin n
DepEdge(disc, n, d) == n \in DOMAIN disc /\ d \in Range(disc[n])

RECURSIVE ReachFrom(_, _)
\* every name reachable from the set S along dependency edges (S included)
ReachFrom(disc, S) ==
    LET T == S \cup {d \in Names : \E n \in S : DepEdge(disc, n, d)}
    IN  IF T = S THEN S ELSE ReachFrom(disc, T)

\* n lies on a dependency cycle
OnCycle(disc, n) ==
    \E d \in Names : DepEdge(disc, n, d) /\ n \in ReachFrom(disc, {d})

HasCycleFrom(disc, S) == \E n \in ReachFrom(disc, S) : OnCycle(disc, n)

\* every name reachable from S is discovered
ClosedFrom(disc, S) == ReachFrom(disc, S) \subseteq DOMAIN disc

\* in order, every name comes after all of its manifest's dependencies
DepsFirst(disc, order) ==
    \A i \in 1..Len(order) :
        \A d \in Range(disc[order[i]]) :
            \E j \in 1..(i-1) : order[j] = d

(***************************************************************************)
(* Claims about dependency resolution (SpecDeps)                           *)
(***************************************************************************)
\* C1: for an acyclic dependency graph over the discovered set (every name
\* reachable from the request is discovered and none lies on a cycle),
\* resolve_dependencies returns a list, the list holds exactly the names
\* reachable from the request, each once, and whatever list it returns places
\* every name after all the dependencies its manifest lists.
C1_DepsBeforeDependents ==
    resolved.status # "idle" =>
        /\ resolved.status = "returned" => DepsFirst(discovered, resolved.order)
        /\ (ClosedFrom(discovered, Range(request)) /\ ~HasCycleFrom(discovered, Range(request)))
              => /\ resolved.status = "returned"
                 /\ Range(resolved.order) = ReachFrom(discovered, Range(request))
                 /\ Cardinality(Range(resolved.order)) = Len(resolved.order)

\* a returned order of three names whose first requested name has a dependency
C1_Witness ==
    /\ resolved.status = "returned"
    /\ Len(resolved.order) = 3
    /\ Len(request) > 0
    /\ discovered[request[1]] # <<>>
    /\ resolved.order[1] # request[1]

\* C2 as claimed: when a cycle is reachable from the requested (discovered)
\* names the call raises, and the plugin the error names is a member of a cycle.
C2_Original ==
    (/\ resolved.status # "idle"
     /\ Range(request) \subseteq DOMAIN discovered
     /\ HasCycleFrom(discovered, Range(request)))
        => /\ resolved.status = "raised"
           /\ OnCycle(discovered, resolved.err.name)

\* C2 as amended: when a cycle is reachable from the requested names the call
\* raises a dependency error and returns no order; a circular-dependency error
\* names a member of a cycle, and the error is the circular one whenever
\* every name reachable from the request is discovered.
C2_CycleRaises ==
    (resolved.status # "idle" /\ HasCycleFrom(discovered, Range(request)))
        => /\ resolved.status = "raised"
           /\ resolved.order = <<>>
           /\ resolved.err.kind \in {"circular", "not_found"}
           /\ resolved.err.kind = "circular" => OnCycle(discovered, resolved.err.name)
           /\ resolved.err.kind = "not_found" => resolved.err.name \notin DOMAIN discovered
           /\ ClosedFrom(discovered, Range(request)) => resolved.err.kind = "circular"

\* a cycle of length two reached through a third plugin is reported
C2_Witness ==
    /\ resolved.status = "raised"
    /\ resolved.err.kind = "circular"
    /\ Len(request) > 0
    /\ ~OnCycle(discovered, request[1])
    /\ OnCycle(discovered, resolved.err.name)

(***************************************************************************)
(* The plugin lifecycle (interfaces.py, class IPlugin)                     *)
(*                                                                         *)
(* One plugin; its methods are called one after another, in any order.     *)
(* Every step makes at most one assignment to _status.                     *)
(***************************************************************************)
PluginStatus == {"inactive", "loading", "active", "error", "stopping", "stopped"}

\* the one configuration key the schema of the plugin may mark as required
ConfigKeys == {"k"}

PIdle(res) == [pcall EXCEPT !.pc = "idle", !.res = res]

\* start() with its test of the status left out
start_precondition_none(status) == TRUE

\* start(): if self._status != PluginStatus.LOADING: raise RuntimeError
start_precondition(status) == status = "loading"

\* _validate_config that accepts every configuration
validate_config_fails_never(meta, config) == FALSE

\* _validate_config: a key the schema marks required is absent from config
validate_config_fails(meta, config) == meta.required /\ ~(ConfigKeys \subseteq config)

\* a method of the plugin is called
PCall(op, arg) ==
    /\ pcall.pc = "idle"
    /\ pcall' = [op |-> op, pc |-> (IF op = "health_check" THEN "health" ELSE op) \o ":enter",
                 log |-> <<>>, res |-> "none", arg |-> arg, pre |-> plugin]
    /\ UNCHANGED <<pmeta, plugin>>
    /\ PlugFrame

CallInitialize == \E config \in SUBSET ConfigKeys : PCall("initialize", config)
CallStart == PCall("start", {})
CallStop == PCall("stop", {})
CallReload == PCall("reload", {})
CallHealthCheck == PCall("health_check", {})

\* the method m returned to its caller: the caller of the plugin, or reload()
PReturned(m) ==
    IF pcall.op # "reload" THEN PIdle("ok")
    ELSE CASE m = "stop" -> [pcall EXCEPT !.pc = "reload:impl", !.log = Append(@, "_reload_impl")]
           [] m = "initialize" -> [pcall EXCEPT !.pc = "start:enter"]
           [] OTHER -> PIdle("ok")

\* an exception leaves the method; reload's handler sets ERROR again and re-raises
PRaised == PIdle("raised")

\* initialize, lines 87-88
InitializeEnter ==
    /\ pcall.pc = "initialize:enter"
    /\ plugin' = [status |-> "loading", config |-> pcall.arg]
    /\ pcall' = [pcall EXCEPT !.pc = "initialize:validate"]
    /\ UNCHANGED pmeta
    /\ PlugFrame

\* initialize, line 91, and the call of _initialize_impl
InitializeValidate ==
    /\ pcall.pc = "initialize:validate"
    /\ IF validate_config_fails(pmeta, pcall.arg)
       THEN /\ plugin' = [plugin EXCEPT !.status = "error"]
            /\ pcall' = PRaised
       ELSE /\ pcall' = [pcall EXCEPT !.pc = "initialize:impl", !.log = Append(@, "_initialize_impl")]
            /\ UNCHANGED plugin
    /\ UNCHANGED pmeta
    /\ PlugFrame

\* _initialize_impl returns or raises
InitializeImpl ==
    /\ pcall.pc = "initialize:impl"
    /\ \E ok \in BOOLEAN :
        IF ok THEN pcall' = PReturned("initialize") /\ UNCHANGED plugin
        ELSE plugin' = [plugin EXCEPT !.status = "error"] /\ pcall' = PRaised
    /\ UNCHANGED pmeta
    /\ PlugFrame

\* start() whose failed test of the status leaves the status as it was
StartEnter_keepsStatus ==
    /\ pcall.pc = "start:enter"
    /\ IF start_precondition(plugin.status)
       THEN pcall' = [pcall EXCEPT !.pc = "start:impl", !.log = Append(@, "_start_impl")]
       ELSE pcall' = PRaised
    /\ UNCHANGED <<pmeta, plugin>>
    /\ PlugFrame

\* start, lines 106-109
StartEnter ==
    /\ pcall.pc = "start:enter"
    /\ IF start_precondition(plugin.status)
       THEN /\ pcall' = [pcall EXCEPT !.pc = "start:impl", !.log = Append(@, "_start_impl")]
            /\ UNCHANGED plugin
       ELSE /\ plugin' = [plugin EXCEPT !.status = "error"]
            /\ pcall' = PRaised
    /\ UNCHANGED pmeta
    /\ PlugFrame

\* _start_impl returns (line 110) or raises (line 119)
StartImpl ==
    /\ pcall.pc = "start:impl"
    /\ \E ok \in BOOLEAN :
        IF ok THEN plugin' = [plugin EXCEPT !.status = "active"] /\ pcall' = PReturned("start")
        ELSE plugin' = [plugin EXCEPT !.status = "error"] /\ pcall' = PRaised
    /\ UNCHANGED pmeta
    /\ PlugFrame

\* stop, lines 126-127
StopEnter ==
    /\ pcall.pc = "stop:enter"
    /\ plugin' = [plugin EXCEPT !.status = "stopping"]
    /\ pcall' = [pcall EXCEPT !.pc = "stop:impl", !.log = Append(@, "_stop_impl")]
    /\ UNCHANGED pmeta
    /\ PlugFrame

\* _stop_impl returns (line 128) or raises (line 133)
StopImpl ==
    /\ pcall.pc = "stop:impl"
    /\ \E ok \in BOOLEAN :
        IF ok THEN plugin' = [plugin EXCEPT !.status = "stopped"] /\ pcall' = PReturned("stop")
        ELSE plugin' = [plugin EXCEPT !.status = "error"] /\ pcall' = PRaised
    /\ UNCHANGED pmeta
    /\ PlugFrame

\* reload() without its test of hot_reload_supported
ReloadEnter_ignoresFlag ==
    /\ pcall.pc = "reload:enter"
    /\ pcall' = [pcall EXCEPT !.pc = "stop:enter"]
    /\ UNCHANGED <<pmeta, plugin>>
    /\ PlugFrame

\* reload, lines 153-160
ReloadEnter ==
    /\ pcall.pc = "reload:enter"
    /\ pcall' = IF pmeta.hot_reload_supported
                THEN [pcall EXCEPT !.pc = "stop:enter"]
                ELSE PRaised
    /\ UNCHANGED <<pmeta, plugin>>
    /\ PlugFrame

\* _reload_impl returns (then initialize(self._config), line 166) or raises (line 172)
ReloadImpl ==
    /\ pcall.pc = "reload:impl"
    /\ \E ok \in BOOLEAN :
        IF ok THEN /\ pcall' = [pcall EXCEPT !.pc = "initialize:enter", !.arg = plugin.config]
                   /\ UNCHANGED plugin
        ELSE plugin' = [plugin EXCEPT !.status = "error"] /\ pcall' = PRaised
    /\ UNCHANGED pmeta
    /\ PlugFrame

\* health_check, lines 140-143
HealthEnter ==
    /\ pcall.pc = "health:enter"
    /\ pcall' = IF plugin.status # "active"
                THEN PIdle("false")
                ELSE [pcall EXCEPT !.pc = "health:impl", !.log = Append(@, "_health_check_impl")]
    /\ UNCHANGED <<pmeta, plugin>>
    /\ PlugFrame

\* _health_check_impl returns a boolean or raises (line 149: return False)
HealthImpl ==
    /\ pcall.pc = "health:impl"
    /\ \E r \in {"true", "false", "raise"} :
        pcall' = PIdle(IF r = "true" THEN "true" ELSE "false")
    /\ UNCHANGED <<pmeta, plugin>>
    /\ PlugFrame

InitPlugin ==
    /\ pmeta \in [hot_reload_supported : BOOLEAN, required : BOOLEAN]
    /\ plugin = [status |-> "inactive", config |-> {}]
    /\ pcall = [op |-> "none", pc |-> "idle", log |-> <<>>, res |-> "none", arg |-> {},
               pre |-> [status |-> "inactive", config |-> {}]]
    /\ discovered = [n \in {} |-> <<>>]
    /\ DepsAtRest
    /\ ManagerAtRest
    /\ ContainerAtRest
    /\ BusAtRest
    /\ ConfigAtRest

NextPlugin ==
    \/ CallInitialize \/ CallStart \/ CallStop \/ CallReload \/ CallHealthCheck
    \/ InitializeEnter \/ InitializeValidate \/ InitializeImpl
    \/ StartEnter \/ StartImpl
    \/ StopEnter \/ StopImpl
    \/ ReloadEnter \/ ReloadImpl
    \/ HealthEnter \/ HealthImpl

SpecPlugin == InitPlugin /\ [][NextPlugin]_vars

(***************************************************************************)
(* Claims about the plugin lifecycle (SpecPlugin)                          *)
(***************************************************************************)
ClaimedEdges ==
    {<<"inactive", "loading">>, <<"loading", "active">>,
     <<"active", "stopping">>, <<"stopping", "stopped">>}

\* C5 as claimed: every change of the status follows an edge of
\* INACTIVE -> LOADING -> ACTIVE -> STOPPING -> STOPPED or goes to ERROR.
C5_Original ==
    [][plugin'.status # plugin.status =>
          \/ <<plugin.status, plugin'.status>> \in ClaimedEdges
          \/ plugin'.status = "error"]_vars

\* C5 as amended: ACTIVE is entered only from LOADING (in start) and STOPPED
\* only from STOPPING (in stop); any state may go to ERROR; initialize moves
\* the plugin to LOADING from whatever state it is in (STOPPED -> LOADING is
\* what reload does) and stop moves it to STOPPING from whatever state it is
\* in; INACTIVE is never entered again and no other change occurs.
C5_Transitions ==
    [][plugin'.status # plugin.status =>
          \/ <<plugin.status, plugin'.status>> \in ClaimedEdges
          \/ plugin'.status = "error"
          \/ plugin'.status = "loading" /\ pcall.pc = "initialize:enter"
          \/ plugin'.status = "stopping" /\ pcall.pc = "stop:enter"]_vars

\* reload has stopped the plugin and is initializing it again
C5_Witness ==
    /\ pcall.op = "reload"
    /\ pcall.pc = "initialize:impl"
    /\ plugin.status = "loading"
    /\ pcall.log = <<"_stop_impl", "_reload_impl", "_initialize_impl">>

\* a key that the schema marks required is absent from the argument of the call
RequiredKeyAbsent == pmeta.required /\ \E k \in ConfigKeys : k \notin pcall.arg

\* the call of the method op has ended (returned or raised)
Ended(op) == pcall.op = op /\ pcall.pc = "idle"

\* C31: start() called on a plugin whose status is not LOADING raises without
\* invoking _start_impl, the plugin is never made ACTIVE by the call, and the
\* status after the call is ERROR, also when the plugin was ACTIVE before.
C31_StartNotLoading ==
    (pcall.op = "start" /\ pcall.pre.status # "loading")
    => /\ pcall.pc \in {"start:enter", "idle"}
       /\ pcall.log = <<>>
       /\ pcall.pc = "start:enter" => plugin = pcall.pre
       /\ pcall.pc = "idle" => pcall.res = "raised" /\ plugin.status = "error"

\* a second start() on an ACTIVE plugin has raised and left it in ERROR
C31_Witness ==
    /\ Ended("start")
    /\ pcall.pre.status = "active"
    /\ pcall.res = "raised"
    /\ plugin.status = "error"

ReloadSteps == <<"_stop_impl", "_reload_impl", "_initialize_impl", "_start_impl">>

\* C32: reload() on an ACTIVE plugin that supports hot-reload calls _stop_impl,
\* _reload_impl, _initialize_impl (with the configuration the plugin has) and
\* _start_impl in that order; nothing but one of the four can fail; when it
\* returns the plugin is ACTIVE and all four ran; when it raises the status is
\* ERROR. On a plugin that does not support hot-reload it raises, calls
\* nothing and leaves status and configuration as they were.
C32_HotReload ==
    /\ (pcall.op = "reload" /\ pmeta.hot_reload_supported /\ pcall.pre.status = "active")
       => /\ pcall.log = SubSeq(ReloadSteps, 1, Len(pcall.log))
          /\ plugin.config = pcall.pre.config
          /\ pcall.pc \in {"initialize:enter", "initialize:validate", "initialize:impl"}
             => pcall.arg = pcall.pre.config /\ ~RequiredKeyAbsent
          /\ pcall.pc = "start:enter" => plugin.status = "loading"
          /\ (pcall.pc = "idle" /\ pcall.res = "ok")
             => pcall.log = ReloadSteps /\ plugin.status = "active"
          /\ (pcall.pc = "idle" /\ pcall.res # "ok")
             => pcall.res = "raised" /\ plugin.status = "error" /\ pcall.log # <<>>
    /\ (Ended("reload") /\ ~pmeta.hot_reload_supported)
       => /\ pcall.res = "raised"
          /\ pcall.log = <<>>
          /\ plugin = pcall.pre

\* a hot reload of an ACTIVE plugin has run its four steps and returned
C32_Witness ==
    /\ Ended("reload")
    /\ pcall.pre.status = "active"
    /\ pcall.res = "ok"
    /\ pcall.log = ReloadSteps
    /\ plugin.status = "active"

\* C33: initialize(config) with a key absent that the schema marks required
\* raises without invoking _initialize_impl and leaves the status ERROR; with
\* every required key present it returns only after _initialize_impl has, the
\* status is then LOADING and the configuration of the plugin is config.
C33_InitializeValidates ==
    Ended("initialize")
    => /\ RequiredKeyAbsent
          => pcall.res = "raised" /\ pcall.log = <<>> /\ plugin.status = "error"
       /\ ~RequiredKeyAbsent
          => /\ pcall.log = <<"_initialize_impl">>
             /\ pcall.res = "ok" => plugin = [status |-> "loading", config |-> pcall.arg]
             /\ pcall.res # "ok" => pcall.res = "raised" /\ plugin.status = "error"

\* an initialize without the required key has raised before _initialize_impl
C33_Witness ==
    /\ Ended("initialize")
    /\ pmeta.required
    /\ pcall.arg = {}
    /\ pcall.res = "raised"
    /\ pcall.log = <<>>
    /\ plugin.status = "error"

(***************************************************************************)
(* The plugin manager (manager.py)                                         *)
(*                                                                         *)
(* A call on the manager is a coroutine. A step of the model runs one      *)
(* coroutine from one point where it may be suspended to the next: inside  *)
(* the handlers of a published event, inside a plugin's _initialize_impl,  *)
(* _start_impl or _stop_impl. Everything between two such points runs      *)
(* without yielding to the event loop and is one atomic step.              *)
(***************************************************************************)
MgrNames == {"A", "B"}

TaskIds == 1..MaxTasks

\* the container key of the interface a plugin of this kind is registered under
InterfaceOf(kind) ==
    CASE kind = "agent" -> "IAgentPlugin"
      [] kind = "embedding" -> "IEmbeddingPlugin"
      [] kind = "memory" -> "IMemoryPlugin"
      [] OTHER -> "none"

\* list.remove(x) where x is known to be in the list: the first occurrence goes
Remove1(s, x) ==
    LET i == IndexOf(s, x)
    IN  IF i = 0 THEN s ELSE SubSeq(s, 1, i - 1) \o SubSeq(s, i + 1, Len(s))

Reverse(s) == [i \in 1..Len(s) |-> s[Len(s) + 1 - i]]

\* the manager, its collaborators and its coroutines as one value
Mgr ==
    [plugins |-> plugins, plugin_classes |-> plugin_classes, plugin_configs |-> plugin_configs,
     load_order |-> load_order, agents |-> agents, embeddings |-> embeddings,
     memory_providers |-> memory_providers, shutdown_initiated |-> shutdown_initiated,
     registered |-> registered, loaded_modules |-> loaded_modules, insts |-> insts,
     event_history |-> event_history, tasks |-> tasks, health_task |-> health_task]

MgrSet(m) ==
    /\ plugins' = m.plugins
    /\ plugin_classes' = m.plugin_classes
    /\ plugin_configs' = m.plugin_configs
    /\ load_order' = m.load_order
    /\ agents' = m.agents
    /\ embeddings' = m.embeddings
    /\ memory_providers' = m.memory_providers
    /\ shutdown_initiated' = m.shutdown_initiated
    /\ registered' = m.registered
    /\ loaded_modules' = m.loaded_modules
    /\ insts' = m.insts
    /\ event_history' = m.event_history
    /\ tasks' = m.tasks
    /\ health_task' = m.health_task
    /\ UNCHANGED <<world, overlap>>
    /\ MgrFrame

\* EventBus.publish as the manager sees it: the event is recorded, the handlers
\* run (the coroutine may be suspended in them), and publish never raises
publish(m, t, type, name) ==
    LET h == Append(m.event_history, [type |-> type, plugin_name |-> name])
    IN  [m EXCEPT !.event_history = IF Len(h) > max_history_size THEN Tail(h) ELSE h,
                  !.tasks[t].npub = @ + 1]

\* the call of task t returns (res = "ok") or raises res to its caller
Finish(m, t, res) == [m EXCEPT !.tasks[t].pc = "done", !.tasks[t].res = res]

SetStatus(m, i, status) == [m EXCEPT !.insts[i].status = status]

\* ---- load_plugin ----

RECURSIVE ContinueBatch(_, _)

\* load_plugins that logs the error of a load and goes on with the next plugin
LoadRaised_continuesBatch(m, t, err) ==
    IF m.tasks[t].op = "load_plugins" THEN ContinueBatch(m, t) ELSE Finish(m, t, err)

\* load_plugin raises to its caller: load_plugins, reload_plugin and the
\* caller of load_plugin all let the error through
LoadRaised(m, t, err) == Finish(m, t, err)

\* load_plugin, lines 104-113: up to the handlers of plugin.loading
EnterLoad(m, t, n) ==
    IF m.plugins[n] # 0
    THEN LoadRaised(m, t, "PluginAlreadyLoadedError")
    ELSE publish([m EXCEPT !.tasks[t].cur = n, !.tasks[t].pc = "L_pubLoading", !.tasks[t].inst = 0],
                 t, "plugin.loading", n)

\* load_plugins, lines 92-96: the loop over the resolved order
ContinueBatch(m, t) ==
    LET q == m.tasks[t].queue
    IN  IF q = <<>> THEN Finish(m, t, "ok")
        ELSE LET m1 == [m EXCEPT !.tasks[t].queue = Tail(q)]
             IN  IF m.plugins[Head(q)] # 0
                 THEN ContinueBatch(m1, t)
                 ELSE EnterLoad(m1, t, Head(q))

\* load_plugins that returns after the first plugin it loads
LoadReturned_stopsBatch(m, t) == Finish(m, t, "ok")

\* load_plugin returns its instance to its caller
LoadReturned(m, t) ==
    IF m.tasks[t].op = "load_plugins" THEN ContinueBatch(m, t) ELSE Finish(m, t, "ok")

\* load_plugin, lines 153-160: the handler publishes plugin.error
LoadFail(m, t, step) ==
    publish([m EXCEPT !.tasks[t].pc = "L_pubError", !.tasks[t].failed_at = step],
            t, "plugin.error", m.tasks[t].cur)

\* PluginDiscovery.load_plugin, lines 219-246. r is what the module file does:
\* "ok", "exec_fails" (_load_module raises) or "noclass" (the module is
\* cached, line 237, and _get_plugin_class_from_module raises)
discovery_load_plugin(m, n, r) ==
    IF n \notin DOMAIN discovered THEN [m |-> m, ok |-> FALSE]
    ELSE IF m.loaded_modules[n].state # "none"
         THEN [m |-> m, ok |-> m.loaded_modules[n].state = "ok"]
    ELSE IF r = "exec_fails" THEN [m |-> m, ok |-> FALSE]
    ELSE [m |-> [m EXCEPT !.loaded_modules[n] = [state |-> r, gen |-> @.gen + 1]],
          ok |-> r = "ok"]

\* PluginDiscovery.reload_plugin, lines 338-352
discovery_reload_plugin(m, n, r) ==
    discovery_load_plugin([m EXCEPT !.loaded_modules[n].state = "none"], n, r)

\* _register_plugin_by_type, lines 323-330
register_plugin_by_type(m, i) ==
    LET n == m.insts[i].name
        k == world.kind[n]
    IN  CASE k = "agent" -> [m EXCEPT !.agents[n] = i]
          [] k = "embedding" -> [m EXCEPT !.embeddings[n] = i]
          [] k = "memory" -> [m EXCEPT !.memory_providers[n] = i]
          [] OTHER -> m

\* ServiceContainer.register_instance: the entry of the key is replaced
register_instance(reg, key, gen, i) ==
    {e \in reg : ~(e.key = key /\ e.gen = gen)} \cup {[key |-> key, gen |-> gen, inst |-> i]}

\* _register_plugin_services, lines 343-354: type(plugin), then its interface
register_plugin_services(m, i) ==
    LET n == m.insts[i].name
        r1 == register_instance(m.registered, n, m.insts[i].gen, i)
        k == InterfaceOf(world.kind[n])
    IN  [m EXCEPT !.registered = IF k = "none" THEN r1 ELSE register_instance(r1, k, 0, i)]

\* _unregister_plugin_by_type, lines 332-341
unregister_plugin_by_type(m, n) ==
    [m EXCEPT !.agents[n] = 0, !.embeddings[n] = 0, !.memory_providers[n] = 0]

\* _cleanup_failed_plugin, lines 356-365
cleanup_failed_plugin(m, n) ==
    [m EXCEPT !.plugins[n] = 0,
              !.plugin_configs = @ \ {n},
              !.plugin_classes = @ \ {n},
              !.load_order = Remove1(@, n)]

\* load_plugin, lines 116-126: the class is loaded and instantiated, initialize
\* sets LOADING and validates the configuration, then awaits _initialize_impl
LoadClassAndInstantiate(m, t, r, instOK, validOK) ==
    LET n == m.tasks[t].cur
        d == discovery_load_plugin(m, n, r)
        m1 == [d.m EXCEPT !.plugin_classes = @ \cup {n}]
        i == Len(m.insts) + 1
        m2 == [m1 EXCEPT !.insts = Append(@, [name |-> n, gen |-> m1.loaded_modules[n].gen,
                                              status |-> "inactive"]),
                         !.tasks[t].inst = i,
                         !.tasks[t].ninst = @ + 1]
    IN  IF ~d.ok THEN LoadFail(d.m, t, "class")
        ELSE IF ~instOK THEN LoadFail(m1, t, "instantiate")
        ELSE IF ~validOK THEN LoadFail(SetStatus(m2, i, "error"), t, "validate")
        ELSE [SetStatus(m2, i, "loading") EXCEPT !.tasks[t].pc = "L_initImpl"]

\* load_plugin, lines 126-140: _initialize_impl returned or raised; the instance
\* is stored and registered, and start awaits _start_impl
StoreAndStart(m, t, ok) ==
    LET n == m.tasks[t].cur
        i == m.tasks[t].inst
        m1 == [m EXCEPT !.plugins[n] = i,
                        !.plugin_configs = @ \cup {n},
                        !.load_order = Append(@, n)]
        m2 == register_plugin_services(register_plugin_by_type(m1, i), i)
    IN  IF ~ok THEN LoadFail(SetStatus(m, i, "error"), t, "initialize")
        ELSE IF ~start_precondition(m2.insts[i].status) THEN LoadFail(SetStatus(m2, i, "error"), t, "start")
        ELSE [m2 EXCEPT !.tasks[t].pc = "L_startImpl"]

\* load_plugin, lines 140-148: _start_impl returned or raised
Started(m, t, ok) ==
    LET i == m.tasks[t].inst
    IN  IF ~ok THEN LoadFail(SetStatus(m, i, "error"), t, "start")
        ELSE publish([SetStatus(m, i, "active") EXCEPT !.tasks[t].pc = "L_pubLoaded"],
                     t, "plugin.loaded", m.tasks[t].cur)

\* load_plugin, lines 162-165: after the handlers of plugin.error
CleanupAndRaise(m, t) ==
    LoadRaised(cleanup_failed_plugin(m, m.tasks[t].cur), t, "PluginLoadError")

\* ---- unload_plugin ----

RECURSIVE ContinueShutdown(_, _)
RECURSIVE UnloadRaised(_, _, _)

\* unload_plugin with the test of _plugins after the plugin.stopping event
EnterUnload_publishFirst(m, t, n) ==
    LET m1 == publish(m, t, "plugin.stopping", n)
    IN  IF m.plugins[n] = 0
        THEN UnloadRaised(m1, t, "PluginNotFoundError")
        ELSE [m1 EXCEPT !.tasks[t].cur = n, !.tasks[t].inst = m.plugins[n],
                        !.tasks[t].pc = "U_pubStopping"]

\* unload_plugin, lines 169-180: up to the handlers of plugin.stopping
EnterUnload(m, t, n) ==
    IF m.plugins[n] = 0
    THEN UnloadRaised(m, t, "PluginNotFoundError")
    ELSE publish([m EXCEPT !.tasks[t].cur = n, !.tasks[t].inst = m.plugins[n],
                           !.tasks[t].pc = "U_pubStopping"],
                 t, "plugin.stopping", n)

\* shutdown, lines 300-304: the loop over the reversed copy of _load_order
ContinueShutdown(m, t) ==
    LET q == m.tasks[t].queue
    IN  IF q = <<>> THEN Finish(m, t, "ok")
        ELSE EnterUnload([m EXCEPT !.tasks[t].queue = Tail(q)], t, Head(q))

\* shutdown that lets the error of unload_plugin through
UnloadRaised_endsShutdown(m, t, err) == Finish(m, t, err)

\* unload_plugin raises to its caller: shutdown logs the error and goes on
UnloadRaised(m, t, err) ==
    IF m.tasks[t].op = "shutdown" THEN ContinueShutdown(m, t) ELSE Finish(m, t, err)

\* unload_plugin returns to its caller: reload_plugin goes on with
\* discovery.reload_plugin and load_plugin (lines 229-232)
UnloadReturned(m, t, r) ==
    LET n == m.tasks[t].cur
        d == discovery_reload_plugin(m, n, r)
    IN  CASE m.tasks[t].op = "shutdown" -> ContinueShutdown(m, t)
          [] m.tasks[t].op = "reload_plugin" ->
                IF d.ok THEN EnterLoad(d.m, t, n) ELSE Finish(d.m, t, "PluginLoadError")
          [] OTHER -> Finish(m, t, "ok")

\* unload_plugin, line 183: stop() sets STOPPING and awaits _stop_impl
StopPlugin(m, t) ==
    [SetStatus(m, m.tasks[t].inst, "stopping") EXCEPT !.tasks[t].pc = "U_stopImpl",
                                                      !.tasks[t].nstop = @ + 1]

\* stop() that leaves the status STOPPING when _stop_impl returns
Stopped_leftStopping(m, t, ok) ==
    LET n == m.tasks[t].cur
        i == m.tasks[t].inst
        m1 == unregister_plugin_by_type(m, m.insts[i].name)
        m2 == [m1 EXCEPT !.plugins[n] = 0,
                         !.plugin_configs = @ \ {n},
                         !.load_order = Remove1(@, n)]
        failed(mm) == publish([mm EXCEPT !.tasks[t].pc = "U_pubError"], t, "plugin.error", n)
    IN  IF ~ok THEN failed(SetStatus(m, i, "error"))
        ELSE IF m1.plugins[n] = 0 THEN failed(m1)
        ELSE publish([m2 EXCEPT !.tasks[t].pc = "U_pubStopped"], t, "plugin.stopped", n)

\* unload_plugin, lines 183-200 and 204-210: _stop_impl returned or raised
Stopped(m, t, ok) ==
    LET n == m.tasks[t].cur
        i == m.tasks[t].inst
        m1 == unregister_plugin_by_type(SetStatus(m, i, "stopped"), m.insts[i].name)
        m2 == [m1 EXCEPT !.plugins[n] = 0,
                         !.plugin_configs = @ \ {n},
                         !.load_order = Remove1(@, n)]
        failed(mm) == publish([mm EXCEPT !.tasks[t].pc = "U_pubError"], t, "plugin.error", n)
    IN  IF ~ok THEN failed(SetStatus(m, i, "error"))
        ELSE IF m1.plugins[n] = 0 THEN failed(m1)   \* del self._plugins[name]: KeyError
        ELSE publish([m2 EXCEPT !.tasks[t].pc = "U_pubStopped"], t, "plugin.stopped", n)

\* ---- health_check_all ----

RECURSIVE HealthNext(_, _, _)

\* health_check_all, lines 274-281: the for statement asks the iterator of
\* _plugins.items() for the next plugin.  The iterator raises RuntimeError when
\* the size of the dict is not what it was when the loop began; when the dict
\* was changed and has its old size, the iteration may raise or go on with the
\* entries that are left (raises).  health_check (interfaces.py:137-149)
\* returns False without awaiting for a plugin that is not ACTIVE and awaits
\* _health_check_impl otherwise.
HealthNext(m, t, raises) ==
    LET tk == m.tasks[t]
        changed == m.plugins # tk.was \/ m.load_order # tk.order
        left == SelectSeq(tk.queue, LAMBDA x : m.plugins[x] # 0)
        n == Head(left)
        i == m.plugins[n]
        m1 == [m EXCEPT !.tasks[t].queue = Tail(left), !.tasks[t].cur = n, !.tasks[t].inst = i]
    IN  IF Cardinality({x \in MgrNames : m.plugins[x] # 0}) # Len(tk.order)
        THEN Finish(m, t, "RuntimeError")
        ELSE IF changed /\ raises THEN Finish(m, t, "RuntimeError")
        ELSE IF left = <<>> THEN Finish(m, t, "ok")
        ELSE IF m.insts[i].status # "active"
             THEN HealthNext([m1 EXCEPT !.tasks[t].results = (n :> FALSE) @@ @,
                                        !.tasks[t].outcome = (n :> "inactive") @@ @],
                             t, raises)
        ELSE [m1 EXCEPT !.tasks[t].pc = "H_impl"]

\* health_check_all, lines 275-279, and health_check, lines 143-149:
\* _health_check_impl has returned True or False or has raised
HealthChecked(m, t, out, raises) ==
    LET n == m.tasks[t].cur
    IN  HealthNext([m EXCEPT !.tasks[t].results = (n :> (out = "true")) @@ @,
                             !.tasks[t].outcome = (n :> out) @@ @],
                   t, raises)

\* ---- the calls and the steps of their coroutines ----

Active(t) == tasks[t].pc \notin {"idle", "done"}

\* a call may start in slot t: slots fill from the lowest, and calls overlap
\* only when the behaviour allows it
CanStart(t) ==
    /\ ncalls < (IF overlap THEN MaxOverlapCalls ELSE MaxCalls)
    /\ ~Active(t)
    /\ \A u \in 1..(t - 1) : Active(u)
    /\ overlap \/ \A u \in TaskIds : ~Active(u)

Begin(t, op, arg) ==
    [Mgr EXCEPT !.tasks[t] = [NoTask EXCEPT !.op = op, !.arg = arg, !.pc = "run",
                                            !.pre = {n \in MgrNames : plugins[n] # 0},
                                            !.order = load_order,
                                            !.active = {i \in 1..Len(insts) :
                                                           /\ insts[i].status = "active"
                                                           /\ plugins[insts[i].name] = i},
                                            !.initiated = shutdown_initiated,
                                            !.was = plugins]]

\* the lists load_plugins is called with
MgrRequests == DistinctSeqsUpTo(MgrNames, Cardinality(MgrNames)) \ {<<>>}

\* await manager.load_plugin(n)
CallLoadPlugin(t, n) ==
    /\ CanStart(t)
    /\ ncalls' = ncalls + 1
    /\ MgrSet(EnterLoad(Begin(t, "load_plugin", <<n>>), t, n))

\* await manager.load_plugins(req), lines 85-100
CallLoadPlugins(t, req) ==
    /\ CanStart(t)
    /\ ncalls' = ncalls + 1
    /\ LET r == resolve_dependencies(discovered, req)
           m == Begin(t, "load_plugins", req)
       IN  MgrSet(IF r.status = "raised"
                  THEN Finish(m, t, "PluginDependencyError")
                  ELSE ContinueBatch([m EXCEPT !.tasks[t].queue = r.order], t))

\* await manager.unload_plugin(n)
CallUnloadPlugin(t, n) ==
    /\ CanStart(t)
    /\ ncalls' = ncalls + 1
    /\ MgrSet(EnterUnload(Begin(t, "unload_plugin", <<n>>), t, n))

\* reload_plugin that does not look at the hot-reload flag
CallReloadPlugin_ignoresFlag(t, n) ==
    /\ CanStart(t)
    /\ ncalls' = ncalls + 1
    /\ LET m == Begin(t, "reload_plugin", <<n>>)
       IN  MgrSet(IF plugins[n] = 0 THEN Finish(m, t, "PluginNotFoundError")
                  ELSE EnterUnload(m, t, n))

\* await manager.reload_plugin(n), lines 215-226
CallReloadPlugin(t, n) ==
    /\ CanStart(t)
    /\ ncalls' = ncalls + 1
    /\ LET m == Begin(t, "reload_plugin", <<n>>)
       IN  MgrSet(IF plugins[n] = 0 THEN Finish(m, t, "PluginNotFoundError")
                  ELSE IF ~world.hot[n] THEN Finish(m, t, "PluginError")
                  ELSE EnterUnload(m, t, n))

\* Task.cancel(): a task that has ended is left as it is
cancel(task) == IF task.outcome = "running" THEN [task EXCEPT !.cancel = TRUE] ELSE task

\* shutdown without the test of _shutdown_initiated
CallShutdown_noGuard(t) ==
    /\ CanStart(t)
    /\ ncalls' = ncalls + 1
    /\ LET m == [Begin(t, "shutdown", <<>>) EXCEPT !.shutdown_initiated = TRUE,
                                                   !.health_task = cancel(@)]
       IN  MgrSet(IF health_task.outcome = "running"
                  THEN [m EXCEPT !.tasks[t].pc = "S_awaitTask"]
                  ELSE ContinueShutdown([m EXCEPT !.tasks[t].queue = Reverse(load_order)], t))

\* await manager.shutdown(), lines 285-304: a second call returns at once; the
\* first one cancels the health-monitor task, if there is one, and awaits it
CallShutdown(t) ==
    /\ CanStart(t)
    /\ ncalls' = ncalls + 1
    /\ LET m == [Begin(t, "shutdown", <<>>) EXCEPT !.shutdown_initiated = TRUE,
                                                   !.health_task = cancel(@)]
       IN  MgrSet(IF shutdown_initiated THEN Finish(Begin(t, "shutdown", <<>>), t, "ok")
                  ELSE IF health_task.outcome = "running"
                  THEN [m EXCEPT !.tasks[t].pc = "S_awaitTask"]
                  ELSE ContinueShutdown([m EXCEPT !.tasks[t].queue = Reverse(load_order)], t))

\* shutdown, lines 294-304: the awaited task has ended; what it raised, a
\* CancelledError, is passed over, and the plugins are unloaded
ShutdownAfterTask(t) ==
    /\ tasks[t].pc = "S_awaitTask"
    /\ health_task.outcome # "running"
    /\ MgrSet(ContinueShutdown([Mgr EXCEPT !.tasks[t].queue = Reverse(load_order)], t))
    /\ UNCHANGED ncalls

\* ---- _health_monitor_loop, lines 372-397 ----

\* a loop is suspended at the await pc and no cancellation is on its way
Suspended(task, pc) == task.outcome = "running" /\ ~task.cancel /\ task.pc = pc

\* the while statement of line 374, reached after a pass of the loop
HealthLoopHead(task) ==
    IF shutdown_initiated THEN [task EXCEPT !.pc = "done", !.outcome = "returned"]
    ELSE [task EXCEPT !.pc = "sleep"]

\* a CancelledError raised at the await the loop is suspended at: the except
\* clause of the try statement catches it and breaks (lines 393-394, config.py
\* 252-253), unless the await is the one in the handler of "except Exception"
\* (line 397, config.py 256), which no clause of that try statement covers
cancelled_at(task) ==
    [task EXCEPT !.pc = "done",
                 !.outcome = IF task.pc = "backoff" THEN "cancelled" ELSE "returned"]

HealthStep(task) ==
    /\ health_task' = task
    /\ UNCHANGED <<world, overlap, plugins, plugin_classes, plugin_configs, load_order, agents,
                   embeddings, memory_providers, shutdown_initiated, registered,
                   loaded_modules, insts, tasks, ncalls>>
    /\ MgrFrame

\* line 376: the sleep of the interval is over; with plugins loaded
\* health_check_all is awaited (line 379)
HealthWake ==
    /\ Suspended(health_task, "sleep")
    /\ health_task.rounds < MaxRounds
    /\ HealthStep(IF \E n \in DOMAIN plugins : plugins[n] # 0
                  THEN [health_task EXCEPT !.pc = "check", !.rounds = @ + 1]
                  ELSE HealthLoopHead([health_task EXCEPT !.rounds = @ + 1]))
    /\ UNCHANGED event_history

\* lines 379-391: health_check_all has returned, and the plugin.health_check
\* event is published; or it has raised (it raises RuntimeError when _plugins
\* changes during the check), and the loop sleeps 5 seconds (lines 395-397)
HealthCheckAwaited(raised) ==
    /\ Suspended(health_task, "check")
    /\ HealthStep([health_task EXCEPT !.pc = IF raised THEN "backoff" ELSE "publish"])
    /\ event_history' =
          IF raised THEN event_history
          ELSE LET h == Append(event_history,
                               [type |-> "plugin.health_check", plugin_name |-> "none"])
               IN  IF Len(h) > max_history_size THEN Tail(h) ELSE h

\* line 387: publish has returned
HealthPublished ==
    /\ Suspended(health_task, "publish")
    /\ HealthStep(HealthLoopHead(health_task))
    /\ UNCHANGED event_history

\* line 397: the back-off sleep is over
HealthBackoffDone ==
    /\ Suspended(health_task, "backoff")
    /\ HealthStep(HealthLoopHead(health_task))
    /\ UNCHANGED event_history

\* the task resumes after cancel(): CancelledError is raised at its await
HealthCancelled ==
    /\ health_task.outcome = "running"
    /\ health_task.cancel
    /\ HealthStep(cancelled_at(health_task))
    /\ UNCHANGED event_history

\* await manager.health_check_all(), lines 270-281
CallHealthCheckAll(t) ==
    /\ CanStart(t)
    /\ ncalls' = ncalls + 1
    /\ LET m == Begin(t, "health_check_all", <<>>)
       IN  MgrSet(HealthNext([m EXCEPT !.tasks[t].queue = load_order], t, FALSE))

\* health_check_all resumes when _health_check_impl returns or raises
HealthAfterImpl(t) ==
    /\ tasks[t].pc = "H_impl"
    /\ \E out \in {"true", "false", "raises"}, raises \in BOOLEAN :
          MgrSet(HealthChecked(Mgr, t, out, raises))
    /\ UNCHANGED ncalls

\* load_plugin resumes after the handlers of plugin.loading
LoadAfterLoadingEvent(t) ==
    /\ tasks[t].pc = "L_pubLoading"
    /\ \E r \in {"ok", "exec_fails", "noclass"}, instOK \in BOOLEAN, validOK \in BOOLEAN :
          MgrSet(LoadClassAndInstantiate(Mgr, t, r, instOK, validOK))
    /\ UNCHANGED ncalls

\* load_plugin resumes when _initialize_impl returns or raises
LoadAfterInitialize(t) ==
    /\ tasks[t].pc = "L_initImpl"
    /\ \E ok \in BOOLEAN : MgrSet(StoreAndStart(Mgr, t, ok))
    /\ UNCHANGED ncalls

\* load_plugin resumes when _start_impl returns or raises
LoadAfterStart(t) ==
    /\ tasks[t].pc = "L_startImpl"
    /\ \E ok \in BOOLEAN : MgrSet(Started(Mgr, t, ok))
    /\ UNCHANGED ncalls

\* load_plugin resumes after the handlers of plugin.loaded and returns
LoadAfterLoadedEvent(t) ==
    /\ tasks[t].pc = "L_pubLoaded"
    /\ MgrSet(LoadReturned(Mgr, t))
    /\ UNCHANGED ncalls

\* load_plugin resumes after the handlers of plugin.error, cleans up and raises
LoadAfterErrorEvent(t) ==
    /\ tasks[t].pc = "L_pubError"
    /\ MgrSet(CleanupAndRaise(Mgr, t))
    /\ UNCHANGED ncalls

\* unload_plugin resumes after the handlers of plugin.stopping
UnloadAfterStoppingEvent(t) ==
    /\ tasks[t].pc = "U_pubStopping"
    /\ MgrSet(StopPlugin(Mgr, t))
    /\ UNCHANGED ncalls

\* unload_plugin resumes when _stop_impl returns or raises
UnloadAfterStop(t) ==
    /\ tasks[t].pc = "U_stopImpl"
    /\ \E ok \in BOOLEAN : MgrSet(Stopped(Mgr, t, ok))
    /\ UNCHANGED ncalls

\* unload_plugin resumes after the handlers of plugin.stopped and returns
UnloadAfterStoppedEvent(t) ==
    /\ tasks[t].pc = "U_pubStopped"
    /\ \E r \in {"ok", "exec_fails", "noclass"} :
          /\ tasks[t].op # "reload_plugin" => r = "ok"
          /\ MgrSet(UnloadReturned(Mgr, t, r))
    /\ UNCHANGED ncalls

\* unload_plugin resumes after the handlers of plugin.error and re-raises
UnloadAfterErrorEvent(t) ==
    /\ tasks[t].pc = "U_pubError"
    /\ MgrSet(UnloadRaised(Mgr, t, "Exception"))
    /\ UNCHANGED ncalls

\* the discovered plugins: B depends on A; A and B depend on each other; B
\* depends on C, which was not discovered
MgrManifests ==
    {[A |-> <<>>, B |-> <<"A">>], [A |-> <<"B">>, B |-> <<"A">>], [A |-> <<>>, B |-> <<"C">>]}

MgrWorlds ==
    {[kind |-> [A |-> "agent", B |-> "memory"], hot |-> [A |-> TRUE, B |-> FALSE]],
     [kind |-> [A |-> "embedding", B |-> "extension"], hot |-> [A |-> TRUE, B |-> TRUE]]}

\* PluginManager.__init__ (lines 27-51) after discover_plugins
InitMgrCommon ==
    /\ discovered \in MgrManifests
    /\ world \in MgrWorlds
    /\ plugins = [n \in MgrNames |-> 0]
    /\ plugin_classes = {}
    /\ plugin_configs = {}
    /\ load_order = <<>>
    /\ agents = [n \in MgrNames |-> 0]
    /\ embeddings = [n \in MgrNames |-> 0]
    /\ memory_providers = [n \in MgrNames |-> 0]
    /\ shutdown_initiated = FALSE
    /\ registered = {}
    /\ loaded_modules = [n \in MgrNames |-> [state |-> "none", gen |-> 0]]
    /\ insts = <<>>
    /\ event_history = <<>>
    /\ tasks = [t \in TaskIds |-> NoTask]
    /\ ncalls = 0
    /\ health_task = NoLoop
    /\ DepsAtRest
    /\ PluginAtRest
    /\ ContainerAtRest
    /\ BusAtRest
    /\ ConfigAtRest

InitMgr == InitMgrCommon /\ overlap = FALSE

\* the manager after initialize() (lines 53-74) has discovered A and B, B
\* depending on A, and load_plugins has loaded both
LoadedManager ==
    /\ discovered = [A |-> <<>>, B |-> <<"A">>]
    /\ world \in MgrWorlds
    /\ plugins = [A |-> 1, B |-> 2]
    /\ plugin_classes = {"A", "B"}
    /\ plugin_configs = {"A", "B"}
    /\ load_order = <<"A", "B">>
    /\ agents = [n \in MgrNames |-> IF world.kind[n] = "agent" THEN plugins[n] ELSE 0]
    /\ embeddings = [n \in MgrNames |-> IF world.kind[n] = "embedding" THEN plugins[n] ELSE 0]
    /\ memory_providers = [n \in MgrNames |-> IF world.kind[n] = "memory" THEN plugins[n] ELSE 0]
    /\ shutdown_initiated = FALSE
    /\ registered = {[key |-> n, gen |-> 1, inst |-> plugins[n]] : n \in MgrNames}
                    \cup {[key |-> InterfaceOf(world.kind[n]), gen |-> 0, inst |-> plugins[n]] :
                            n \in {x \in MgrNames : InterfaceOf(world.kind[x]) # "none"}}
    /\ loaded_modules = [n \in MgrNames |-> [state |-> "ok", gen |-> 1]]
    /\ insts = <<[name |-> "A", gen |-> 1, status |-> "active"],
                 [name |-> "B", gen |-> 1, status |-> "active"]>>
    /\ event_history = <<[type |-> "plugin.loading", plugin_name |-> "A"],
                         [type |-> "plugin.loaded", plugin_name |-> "A"],
                         [type |-> "plugin.loading", plugin_name |-> "B"],
                         [type |-> "plugin.loaded", plugin_name |-> "B"]>>
    /\ tasks = [t \in TaskIds |-> NoTask]
    /\ ncalls = 0
    /\ DepsAtRest
    /\ PluginAtRest
    /\ ContainerAtRest
    /\ BusAtRest

\* initialize() without health monitoring; the calls that follow may overlap
InitMgrLoaded ==
    /\ LoadedManager
    /\ overlap = TRUE
    /\ health_task = NoLoop
    /\ ConfigAtRest

InitMgrConc == InitMgrCommon /\ overlap = TRUE

NextMgr ==
    \/ \E t \in TaskIds, n \in MgrNames : CallLoadPlugin(t, n)
    \/ \E t \in TaskIds, req \in MgrRequests : CallLoadPlugins(t, req)
    \/ \E t \in TaskIds, n \in MgrNames : CallUnloadPlugin(t, n)
    \/ \E t \in TaskIds, n \in MgrNames : CallReloadPlugin(t, n)
    \/ \E t \in TaskIds : CallShutdown(t)
    \/ \E t \in TaskIds : CallHealthCheckAll(t)
    \/ \E t \in TaskIds : HealthAfterImpl(t)
    \/ \E t \in TaskIds : LoadAfterLoadingEvent(t)
    \/ \E t \in TaskIds : LoadAfterInitialize(t)
    \/ \E t \in TaskIds : LoadAfterStart(t)
    \/ \E t \in TaskIds : LoadAfterLoadedEvent(t)
    \/ \E t \in TaskIds : LoadAfterErrorEvent(t)
    \/ \E t \in TaskIds : UnloadAfterStoppingEvent(t)
    \/ \E t \in TaskIds : UnloadAfterStop(t)
    \/ \E t \in TaskIds : UnloadAfterStoppedEvent(t)
    \/ \E t \in TaskIds : UnloadAfterErrorEvent(t)

SpecMgr == InitMgr /\ [][NextMgr]_vars

SpecMgrConc == InitMgrConc /\ [][NextMgr]_vars

SpecMgrLoaded == InitMgrLoaded /\ [][NextMgr]_vars

(***************************************************************************)
(* Claims about the plugin manager                                         *)
(***************************************************************************)
Loaded(n) == plugins[n] # 0

Ev(type, n) == [type |-> type, plugin_name |-> n]

\* the events the call of task t has published, when it is the latest call
OwnEvents(t) ==
    SubSeq(event_history, Len(event_history) - tasks[t].npub + 1, Len(event_history))

\* a call of op begins in this step, in slot t
Begins(t, op) ==
    /\ ncalls' = ncalls + 1
    /\ tasks'[t] # tasks[t]
    /\ tasks'[t].op = op

\* what a call may change of the manager, its registries, the container and
\* the event bus
Effects ==
    <<plugins, plugin_classes, plugin_configs, load_order, agents, embeddings,
      memory_providers, registered, loaded_modules, insts, event_history>>

\* the requested names have a missing or a cyclic dependency
BadDependencies(req) ==
    \/ ~ClosedFrom(discovered, Range(req))
    \/ HasCycleFrom(discovered, Range(req))

\* C3 as stated: a load through load_plugins or load_plugin of names with a
\* missing or cyclic dependency raises, instantiates no plugin class and
\* publishes no lifecycle event.
C3_Original ==
    \A t \in TaskIds :
        (/\ tasks[t].pc = "done"
         /\ tasks[t].op \in {"load_plugins", "load_plugin"}
         /\ BadDependencies(tasks[t].arg))
        => (tasks[t].res # "ok" /\ tasks[t].ninst = 0 /\ tasks[t].npub = 0)

\* C3: a load_plugins call whose requested names have a missing or cyclic
\* dependency raises a dependency error in the step it is called in, before any
\* instantiation: no instance is made, no event is published, and the loaded
\* set, the load order, the registries and the container are left as they were.
\* load_plugin(name) makes no such test: it loads the named plugin alone.
C3_FailsBeforeInstantiation ==
    [][\A t \in TaskIds :
          /\ (Begins(t, "load_plugins") /\ BadDependencies(tasks'[t].arg))
             => /\ tasks'[t].pc = "done"
                /\ tasks'[t].res = "PluginDependencyError"
                /\ tasks'[t].ninst = 0
                /\ tasks'[t].npub = 0
                /\ UNCHANGED Effects
          /\ (Begins(t, "load_plugin") /\ ~Loaded(tasks'[t].arg[1]))
             => /\ tasks'[t].pc = "L_pubLoading"
                /\ tasks'[t].npub = 1]_vars

\* load_plugins has refused a request with a missing or cyclic dependency
\* while another plugin is loaded
C3_Witness ==
    \E t \in TaskIds :
        /\ tasks[t].pc = "done"
        /\ tasks[t].op = "load_plugins"
        /\ BadDependencies(tasks[t].arg)
        /\ tasks[t].res = "PluginDependencyError"
        /\ load_order # <<>>
        /\ event_history # <<>>

\* the instances of name n that are loading or active
Live(n) == {i \in 1..Len(insts) : insts[i].name = n /\ insts[i].status \in {"loading", "active"}}

\* C4: at most one live instance exists per plugin name: while one instance of
\* a name is being loaded or is loaded, no second instance of that name is
\* initialized or started, whatever the interleaving of the calls.
C4_OneLiveInstance == \A n \in MgrNames : Cardinality(Live(n)) <= 1

\* the plugin of name n is in none of the manager's collections
AbsentFromManager(n) ==
    /\ plugins[n] = 0
    /\ n \notin Range(load_order)
    /\ agents[n] = 0
    /\ embeddings[n] = 0
    /\ memory_providers[n] = 0

\* no key of the container holds an instance of the plugin of name n
AbsentFromContainer(n) == \A e \in registered : insts[e.inst].name # n

\* C6: when load_plugin fails at any step after it began, the plugin is absent
\* from the loaded set, the load order, every type registry and the service
\* container, a plugin.error event for it was published, and the call raises a
\* plugin load error.
C6_FailedLoadCleansUp ==
    \A t \in TaskIds :
        (/\ tasks[t].pc = "done"
         /\ tasks[t].op = "load_plugin"
         /\ tasks[t].failed_at # "none")
        => /\ tasks[t].res = "PluginLoadError"
           /\ AbsentFromManager(tasks[t].cur)
           /\ AbsentFromContainer(tasks[t].cur)
           /\ Ev("plugin.error", tasks[t].cur) \in Range(OwnEvents(t))

\* C7: when a plugin's _initialize_impl raises during load_plugin, the call
\* raises a plugin load error and the plugin is absent from the loaded plugins
\* and from every type registry afterwards.
C7_InitializeFailure ==
    \A t \in TaskIds :
        (/\ tasks[t].pc = "done"
         /\ tasks[t].op = "load_plugin"
         /\ tasks[t].failed_at = "initialize")
        => /\ tasks[t].res = "PluginLoadError"
           /\ plugins[tasks[t].cur] = 0
           /\ agents[tasks[t].cur] = 0
           /\ embeddings[tasks[t].cur] = 0
           /\ memory_providers[tasks[t].cur] = 0

\* the closure of the request, in the order load_plugins walks it
ResolvedOrder(t) == resolve_dependencies(discovered, tasks[t].arg).order

\* the index of the latest event of this type and plugin in the history, or 0
LastEvent(type, n) ==
    LET S == {i \in DOMAIN event_history : event_history[i] = Ev(type, n)}
    IN  IF S = {} THEN 0 ELSE CHOOSE i \in S : \A j \in S : j <= i

RECURSIVE LoadEvents(_)
\* plugin.loading then plugin.loaded, for each name of the sequence in turn
LoadEvents(names) ==
    IF names = <<>> THEN <<>>
    ELSE <<Ev("plugin.loading", Head(names)), Ev("plugin.loaded", Head(names))>>
         \o LoadEvents(Tail(names))

\* C8 as stated: when load_plugins returns, every plugin of the dependency
\* closure of the request is ACTIVE, each plugin's plugin.loading event
\* precedes its plugin.loaded event, and the plugin.loaded event of each
\* dependency precedes the plugin.loading event of its dependent.
C8_Original ==
    \A t \in TaskIds :
        (tasks[t].pc = "done" /\ tasks[t].op = "load_plugins" /\ tasks[t].res = "ok")
        => \A n \in Range(ResolvedOrder(t)) :
              /\ Loaded(n)
              /\ insts[plugins[n]].status = "active"
              /\ 0 < LastEvent("plugin.loading", n)
              /\ LastEvent("plugin.loading", n) < LastEvent("plugin.loaded", n)
              /\ \A d \in Range(discovered[n]) :
                    /\ 0 < LastEvent("plugin.loaded", d)
                    /\ LastEvent("plugin.loaded", d) < LastEvent("plugin.loading", n)

\* C8: when load_plugins returns, the plugins of the dependency closure that
\* were not loaded when it was called have been loaded in dependency order:
\* each is ACTIVE, and the call has published exactly plugin.loading then
\* plugin.loaded for each of them in the resolved order, so the plugin.loaded
\* of a dependency it loads precedes the plugin.loading of its dependent. The
\* plugins of the closure that were loaded already are skipped: they stay
\* loaded, in whatever status they were, and no event is published for them.
C8_LoadsInDependencyOrder ==
    \A t \in TaskIds :
        (tasks[t].pc = "done" /\ tasks[t].op = "load_plugins" /\ tasks[t].res = "ok")
        => LET order == ResolvedOrder(t)
               fresh == SelectSeq(order, LAMBDA n : n \notin tasks[t].pre)
           IN  /\ DepsFirst(discovered, order)
               /\ OwnEvents(t) = LoadEvents(fresh)
               /\ \A n \in Range(order) : Loaded(n)
               /\ \A n \in Range(fresh) : insts[plugins[n]].status = "active"
               /\ tasks[t].ninst = Len(fresh)

\* load_plugins(["B"]) on a manager with nothing loaded has loaded A, which
\* B depends on, and then B
C8_Witness ==
    \E t \in TaskIds :
        /\ tasks[t].pc = "done"
        /\ tasks[t].op = "load_plugins"
        /\ tasks[t].res = "ok"
        /\ tasks[t].arg = <<"B">>
        /\ tasks[t].pre = {}
        /\ OwnEvents(t) = LoadEvents(<<"A", "B">>)
        /\ insts[plugins["A"]].status = "active"
        /\ insts[plugins["B"]].status = "active"

\* C9: unload_plugin on a name that is not loaded raises a plugin-not-found
\* error and changes nothing: no event is published, no stop is called, and
\* the loaded set, the load order, the registries and the container are as
\* they were.
C9_UnloadNotLoaded ==
    [][\A t \in TaskIds :
          (Begins(t, "unload_plugin") /\ ~Loaded(tasks'[t].arg[1]))
          => /\ tasks'[t].pc = "done"
             /\ tasks'[t].res = "PluginNotFoundError"
             /\ tasks'[t].npub = 0
             /\ tasks'[t].nstop = 0
             /\ UNCHANGED Effects
             /\ UNCHANGED shutdown_initiated]_vars

\* unload_plugin has raised not-found for one name while another is loaded
C9_Witness ==
    \E t \in TaskIds :
        /\ tasks[t].pc = "done"
        /\ tasks[t].op = "unload_plugin"
        /\ tasks[t].res = "PluginNotFoundError"
        /\ ~Loaded(tasks[t].arg[1])
        /\ \E n \in MgrNames : Loaded(n) /\ insts[plugins[n]].status = "active"
        /\ event_history # <<>>

\* a load_plugins call has raised the error of one of its loads
BatchFailed(t) ==
    /\ tasks[t].pc = "done"
    /\ tasks[t].op = "load_plugins"
    /\ tasks[t].failed_at # "none"

\* C21: in a load_plugins batch in which the load of one plugin fails, the
\* error propagates to the caller, no plugin later in the resolved order is
\* instantiated, and every plugin loaded earlier in the same batch remains
\* loaded and ACTIVE.
C21_BatchStopsAtFailure ==
    \A t \in TaskIds :
        BatchFailed(t)
        => LET order == ResolvedOrder(t)
               k == IndexOf(order, tasks[t].cur)
               fresh(a, b) == {order[i] : i \in {j \in a..b : order[j] \notin tasks[t].pre}}
               made == IF tasks[t].failed_at \in {"class", "instantiate"} THEN 0 ELSE 1
           IN  /\ tasks[t].res = "PluginLoadError"
               /\ k > 0
               /\ tasks[t].ninst = Cardinality(fresh(1, k - 1)) + made
               /\ \A n \in fresh(k + 1, Len(order)) : ~Loaded(n)
               /\ \A n \in fresh(1, k - 1) : Loaded(n) /\ insts[plugins[n]].status = "active"
               /\ tasks[t].queue = SubSeq(order, k + 1, Len(order))

\* load_plugins(["B"]) has loaded A and then failed in the load of B
C21_Witness ==
    \E t \in TaskIds :
        /\ BatchFailed(t)
        /\ tasks[t].pre = {}
        /\ ResolvedOrder(t) = <<"A", "B">>
        /\ tasks[t].cur = "B"
        /\ Loaded("A") /\ insts[plugins["A"]].status = "active"
        /\ ~Loaded("B")

\* an unload_plugin call has returned
Unloaded(t) == tasks[t].pc = "done" /\ tasks[t].op = "unload_plugin" /\ tasks[t].res = "ok"

\* C27: an unload_plugin that returns has published plugin.stopping, called
\* stop, and published plugin.stopped, in this order, and has left the
\* instance in none of the places load_plugin had put it: the loaded set, the
\* load order, the type registries and the service container.
C27_UnloadMirrorsLoad ==
    \A t \in TaskIds :
        Unloaded(t)
        => /\ OwnEvents(t) = <<Ev("plugin.stopping", tasks[t].cur),
                               Ev("plugin.stopped", tasks[t].cur)>>
           /\ tasks[t].nstop = 1
           /\ insts[tasks[t].inst].status = "stopped"
           /\ AbsentFromManager(tasks[t].cur)
           /\ \A e \in registered : e.inst # tasks[t].inst

\* C27 without the service container
C27_ManagerPart ==
    \A t \in TaskIds :
        Unloaded(t)
        => /\ OwnEvents(t) = <<Ev("plugin.stopping", tasks[t].cur),
                               Ev("plugin.stopped", tasks[t].cur)>>
           /\ tasks[t].nstop = 1
           /\ insts[tasks[t].inst].status = "stopped"
           /\ AbsentFromManager(tasks[t].cur)

\* a reload_plugin call has returned the new instance
Reloaded(t) == tasks[t].pc = "done" /\ tasks[t].op = "reload_plugin" /\ tasks[t].res = "ok"

\* C28: reload_plugin of a name that is not loaded, or of a loaded plugin
\* without the hot-reload flag, raises at once: nothing is stopped, no event is
\* published and the manager is as before.  A reload_plugin that returns has
\* left one ACTIVE instance loaded under the name, made by this call, and the
\* instance that was loaded before is STOPPED.
C28_Reload ==
    /\ [][\A t \in TaskIds :
            LET n == tasks'[t].arg[1]
            IN  (Begins(t, "reload_plugin") /\ (~Loaded(n) \/ ~world.hot[n]))
                => /\ tasks'[t].pc = "done"
                   /\ tasks'[t].res = IF Loaded(n) THEN "PluginError" ELSE "PluginNotFoundError"
                   /\ tasks'[t].npub = 0
                   /\ tasks'[t].nstop = 0
                   /\ UNCHANGED Effects
                   /\ UNCHANGED shutdown_initiated]_vars
    /\ [](\A t \in TaskIds :
            Reloaded(t)
            => LET n == tasks[t].arg[1]
                   old == tasks[t].was[n]
               IN  /\ world.hot[n]
                   /\ old # 0
                   /\ Loaded(n)
                   /\ plugins[n] > old
                   /\ tasks[t].ninst = 1
                   /\ Live(n) = {plugins[n]}
                   /\ insts[plugins[n]].status = "active"
                   /\ insts[old].status = "stopped"
                   /\ tasks[t].nstop = 1)

\* reload_plugin has replaced the instance of one plugin, and a later
\* reload_plugin of a loaded plugin without the flag has been refused
C28_Witness ==
    \E t \in TaskIds, n \in MgrNames, i, j \in 1..Len(insts) :
        /\ tasks[t].pc = "done"
        /\ tasks[t].op = "reload_plugin"
        /\ tasks[t].res = "PluginError"
        /\ Loaded(tasks[t].arg[1])
        /\ i < j
        /\ insts[i].name = n /\ insts[i].status = "stopped"
        /\ plugins[n] = j /\ insts[j].status = "active"

\* a health_check_all call has returned or raised
HealthCheckDone(t) == tasks[t].pc = "done" /\ tasks[t].op = "health_check_all"

\* C26: health_check_all does not raise, and the map it returns has one
\* boolean for each plugin that was loaded when it was called: True only for a
\* plugin that was ACTIVE when it was asked and whose _health_check_impl
\* returned True, whatever other calls do while the check is awaiting.
C26_HealthCheckAll ==
    \A t \in TaskIds :
        HealthCheckDone(t)
        => /\ tasks[t].res = "ok"
           /\ DOMAIN tasks[t].results = tasks[t].pre
           /\ \A n \in DOMAIN tasks[t].results :
                 tasks[t].results[n] = (tasks[t].outcome[n] = "true")

\* the names shutdown has published plugin.stopping for, in order: the
\* plugins it attempted to unload
UnloadAttempts(t) ==
    LET stopping == SelectSeq(OwnEvents(t), LAMBDA e : e.type = "plugin.stopping")
    IN  [i \in 1..Len(stopping) |-> stopping[i].plugin_name]

ShutdownDone(t) == tasks[t].pc = "done" /\ tasks[t].op = "shutdown"

\* shutdown went through the plugins in reverse load order and unloaded each
\* one whose stop did not fail
UnloadedInReverse(t) ==
    /\ tasks[t].res = "ok"
    /\ UnloadAttempts(t) = Reverse(tasks[t].order)
    /\ tasks[t].nstop = Len(tasks[t].order)
    /\ \A n \in Range(tasks[t].order) : Loaded(n) => insts[plugins[n]].status = "error"

\* C19 as stated: shutdown attempts to unload every loaded plugin in exact
\* reverse load order, an unload that fails keeps no plugin earlier in load
\* order from being unloaded, and shutdown returns without raising.
C19_Original ==
    \A t \in TaskIds : ShutdownDone(t) => UnloadedInReverse(t)

\* C19: the first call of shutdown attempts to unload every loaded plugin in
\* exact reverse load order, an unload that fails keeps no plugin earlier in
\* load order from being unloaded, and shutdown returns without raising; a
\* later call of shutdown returns at once and attempts nothing, whatever is
\* loaded.
C19_ShutdownOrder ==
    \A t \in TaskIds :
        ShutdownDone(t)
        => IF tasks[t].initiated
           THEN tasks[t].res = "ok" /\ tasks[t].npub = 0 /\ tasks[t].nstop = 0
           ELSE UnloadedInReverse(t)

\* shutdown has returned after the stop of B, loaded last, failed and A,
\* loaded first, was unloaded
C19_Witness ==
    \E t \in TaskIds :
        /\ ShutdownDone(t)
        /\ tasks[t].order = <<"A", "B">>
        /\ tasks[t].res = "ok"
        /\ Loaded("B") /\ insts[plugins["B"]].status = "error"
        /\ ~Loaded("A")

\* every instance that was loaded and ACTIVE when the call began is STOPPED,
\* or in ERROR when its stop failed
ActiveStopped(t) == \A i \in tasks[t].active : insts[i].status \in {"stopped", "error"}

CTypes == {"S", "T"}

CKeys == CTypes \cup {"ServiceContainer"}

ServiceLifetime == {"singleton", "transient", "scoped"}

NoService == [lifetime |-> "none", kind |-> "none", inst |-> 0]

ServiceDescriptor(lifetime, kind, inst) == [lifetime |-> lifetime, kind |-> kind, inst |-> inst]

\* the container as one value, at the start of a call
Cont ==
    [services |-> services, singletons |-> singletons, building |-> building,
     created |-> created, returned |-> returned, built |-> built,
     scoped_instances |-> scoped_instances, disposals |-> disposals,
     hits |-> 0, defaults_used |-> 0]

ContSet(c) ==
    /\ services' = c.services
    /\ singletons' = c.singletons
    /\ building' = c.building
    /\ created' = c.created
    /\ returned' = c.returned
    /\ built' = c.built
    /\ scoped_instances' = c.scoped_instances
    /\ disposals' = c.disposals

\* a call raises ServiceResolutionError: err is the chain of causes, outermost first
Raise(c, err) == [c |-> c, ok |-> FALSE, val |-> 0, err |-> err]

Return(c, v) == [c |-> c, ok |-> TRUE, val |-> v, err |-> <<>>]

\* cls(**kwargs), or a factory building its object: a new instance
construct(c, cls, kwargs) ==
    Return([c EXCEPT !.created = Append(@, [cls |-> cls, args |-> kwargs])], Len(c.created) + 1)

RECURSIVE resolve(_, _)
RECURSIVE inject(_, _, _, _)
RECURSIVE create_instance(_, _)

\* _create_instance_with_injection, lines 165-190: the loop over the parameters
\* of __init__ from the k-th on, then the call of the class
inject(c, cls, k, kwargs) ==
    LET params == cworld[cls]
        r == resolve(c, params[k].type)
    IN  IF k > Len(params) THEN construct(c, cls, kwargs)
        ELSE IF r.ok THEN inject(r.c, cls, k + 1, Append(kwargs, r.val))
        ELSE IF params[k].default
             THEN inject([r.c EXCEPT !.defaults_used = @ + 1], cls, k + 1, kwargs)
        ELSE r

\* _create_instance_with_injection that wraps the exception without its cause
create_instance_with_injection_noCause(c, cls) ==
    LET r == inject(c, cls, 1, <<>>)
    IN  IF r.ok THEN r ELSE Raise(r.c, <<"create_failed">>)

\* _create_instance_with_injection, lines 156-198: any exception is wrapped
create_instance_with_injection(c, cls) ==
    LET r == inject(c, cls, 1, <<>>)
    IN  IF r.ok THEN r ELSE Raise(r.c, <<"create_failed">> \o r.err)

\* _create_instance, lines 134-154; a construction that succeeds is counted
create_instance(c, T) ==
    LET d == c.services[T]
        r == CASE d.kind = "factory" -> construct(c, T, <<>>)
               [] d.kind = "failing_factory" -> Raise(c, <<"factory_failed">>)
               [] d.kind = "lambda" -> Return(c, d.inst)
               [] d.kind = "class" -> create_instance_with_injection(c, T)
               [] OTHER -> Raise(c, <<"invalid">>)
    IN  IF r.ok /\ d.kind \in {"factory", "class"}
        THEN [r EXCEPT !.c.built[T] = @ + 1]
        ELSE r

\* _resolve_internal, lines 112-132
resolve_internal(c, T) ==
    LET r == create_instance(c, T)
    IN  IF c.services[T] = NoService THEN Raise(c, <<"not_registered">>)
        ELSE IF c.services[T].lifetime = "singleton"
             THEN IF c.singletons[T] # 0 THEN Return(c, c.singletons[T])
                  ELSE IF r.ok THEN [r EXCEPT !.c.singletons[T] = r.val]
                  ELSE r
        ELSE r

\* resolve whose _building.discard runs only when _resolve_internal returns
resolve_keepsOnRaise(c, T) ==
    LET r == resolve_internal([c EXCEPT !.building = @ \cup {T}], T)
    IN  IF T \in c.building THEN Raise([c EXCEPT !.hits = @ + 1], <<"circular">>)
        ELSE IF r.ok THEN [r EXCEPT !.c.building = @ \ {T}, !.c.returned[T] = @ \cup {r.val}]
        ELSE r

\* resolve, lines 99-110; an instance that is returned is recorded
resolve(c, T) ==
    LET r == resolve_internal([c EXCEPT !.building = @ \cup {T}], T)
        r1 == [r EXCEPT !.c.building = @ \ {T}]
    IN  IF T \in c.building THEN Raise([c EXCEPT !.hits = @ + 1], <<"circular">>)
        ELSE IF r1.ok THEN [r1 EXCEPT !.c.returned[T] = @ \cup {r1.val}]
        ELSE r1

\* register_singleton, register_transient, register_scoped, register_factory:
\* _services[service_type] is replaced (lines 49-97)
register(c, T, lifetime, kind) ==
    [c EXCEPT !.services[T] = ServiceDescriptor(lifetime, kind, 0),
              !.returned[T] = {},
              !.built[T] = 0]

\* register_instance, lines 79-87: instance is an object made by the caller
register_instance_of(c, T) ==
    LET i == Len(c.created) + 1
    IN  [c EXCEPT !.created = Append(@, [cls |-> T, args |-> <<>>]),
                  !.singletons[T] = i,
                  !.services[T] = ServiceDescriptor("singleton", "lambda", i),
                  !.returned[T] = {},
                  !.built[T] = 0]

CanCall == ~deadlocked /\ nops < MaxContainerOps

CalledIn(scope, op, T, r) ==
    /\ last' = [op |-> op, type |-> T, scope |-> scope, ok |-> r.ok, val |-> r.val,
                err |-> r.err, hits |-> r.c.hits, defaults_used |-> r.c.defaults_used]
    /\ nops' = nops + 1
    /\ UNCHANGED <<cworld, deadlocked, threads>>
    /\ ContFrame

Called(op, T, r) == CalledIn(0, op, T, r)

ImplKinds == {"class", "factory", "failing_factory", "object"}

ScopeIds == 1..MaxScopes

\* ScopedServiceContainer.dispose, lines 249-258: every class of the model has
\* a dispose hook; what a hook raises is logged
scoped_dispose(c, sc) ==
    LET cached == {c.scoped_instances[sc][T] : T \in CKeys} \ {0}
    IN  [c EXCEPT !.disposals = @ \o SetToSeq(cached),
                  !.scoped_instances[sc] = [T \in CKeys |-> 0]]

\* ScopedServiceContainer.resolve that builds a scoped service at every call
scoped_resolve_uncached(c, sc, T) ==
    IF c.services[T] # NoService /\ c.services[T].lifetime = "scoped"
    THEN create_instance(c, T)
    ELSE resolve(c, T)

\* ScopedServiceContainer.resolve, lines 230-247
scoped_resolve(c, sc, T) ==
    IF c.services[T] = NoService THEN resolve(c, T)
    ELSE IF c.services[T].lifetime = "scoped"
         THEN IF c.scoped_instances[sc][T] # 0 THEN Return(c, c.scoped_instances[sc][T])
              ELSE LET r == create_instance(c, T)
                   IN  IF r.ok THEN [r EXCEPT !.c.scoped_instances[sc][T] = r.val]
                       ELSE r
    ELSE resolve(c, T)

\* scope.resolve(T), for a scope that create_scope (lines 218-220) has made
ScopedResolve(sc, T) ==
    /\ CanCall
    /\ LET r == scoped_resolve(Cont, sc, T)
       IN  ContSet(r.c) /\ CalledIn(sc, "scoped_resolve", T, r)

\* scope.dispose()
ScopedDispose(sc) ==
    /\ CanCall
    /\ ContSet(scoped_dispose(Cont, sc))
    /\ CalledIn(sc, "dispose", "none", Return(Cont, 0))

RegisterSingleton(T, kind) ==
    /\ CanCall
    /\ ContSet(register(Cont, T, "singleton", kind))
    /\ Called("register_singleton", T, Return(Cont, 0))

RegisterTransient(T, kind) ==
    /\ CanCall
    /\ ContSet(register(Cont, T, "transient", kind))
    /\ Called("register_transient", T, Return(Cont, 0))

RegisterScoped(T, kind) ==
    /\ CanCall
    /\ ContSet(register(Cont, T, "scoped", kind))
    /\ Called("register_scoped", T, Return(Cont, 0))

RegisterFactory(T, kind) ==
    /\ CanCall
    /\ ContSet(register(Cont, T, "transient", kind))
    /\ Called("register_factory", T, Return(Cont, 0))

RegisterInstance(T) ==
    /\ CanCall
    /\ ContSet(register_instance_of(Cont, T))
    /\ Called("register_instance", T, Return(Cont, 0))

\* container.resolve(T), called from outside the container
ResolveService(T) ==
    /\ CanCall
    /\ LET r == resolve(Cont, T)
       IN  ContSet(r.c) /\ Called("resolve", T, r)

\* clear, lines 208-216: the three collections are emptied under _lock, then
\* register_singleton waits for _lock, which is not reentrant and is held by
\* this very call
Clear ==
    /\ CanCall
    /\ services' = [T \in CKeys |-> NoService]
    /\ singletons' = [T \in CKeys |-> 0]
    /\ building' = {}
    /\ returned' = [T \in CKeys |-> {}]
    /\ built' = [T \in CKeys |-> 0]
    /\ deadlocked' = TRUE
    /\ last' = [NoCall EXCEPT !.op = "clear"]
    /\ nops' = nops + 1
    /\ UNCHANGED <<cworld, created, scoped_instances, disposals, threads>>
    /\ ContFrame

Param(T, default) == [type |-> T, default |-> default]

\* the constructors of S and T: without parameters; S takes a T; each takes the
\* other; S takes a T or its default and T takes a T
CWorlds ==
    {[S |-> <<>>, T |-> <<>>],
     [S |-> <<Param("T", FALSE)>>, T |-> <<>>],
     [S |-> <<Param("T", FALSE)>>, T |-> <<Param("S", FALSE)>>],
     [S |-> <<Param("T", TRUE)>>, T |-> <<Param("T", FALSE)>>]}

\* ServiceContainer.__init__, lines 40-47: the container registers itself
InitContainer ==
    /\ cworld \in CWorlds
    /\ services = [T \in CKeys |-> IF T = "ServiceContainer"
                                   THEN ServiceDescriptor("singleton", "object", 0)
                                   ELSE NoService]
    /\ singletons = [T \in CKeys |-> 0]
    /\ building = {}
    /\ created = <<>>
    /\ returned = [T \in CKeys |-> {}]
    /\ built = [T \in CKeys |-> 0]
    /\ deadlocked = FALSE
    /\ last = NoCall
    /\ nops = 0
    /\ scoped_instances = [sc \in ScopeIds |-> [T \in CKeys |-> 0]]
    /\ disposals = <<>>
    /\ threads = <<>>
    /\ discovered = [n \in {} |-> <<>>]
    /\ DepsAtRest
    /\ PluginAtRest
    /\ ManagerAtRest
    /\ BusAtRest
    /\ ConfigAtRest

NextContainer ==
    \/ \E T \in CTypes, kind \in ImplKinds : RegisterSingleton(T, kind)
    \/ \E T \in CTypes, kind \in ImplKinds : RegisterTransient(T, kind)
    \/ \E T \in CTypes : RegisterScoped(T, "class")
    \/ \E T \in CTypes, kind \in {"factory", "failing_factory"} : RegisterFactory(T, kind)
    \/ \E T \in CTypes : RegisterInstance(T)
    \/ \E T \in CKeys : ResolveService(T)
    \/ \E sc \in ScopeIds, T \in CKeys : ScopedResolve(sc, T)
    \/ \E sc \in ScopeIds : ScopedDispose(sc)
    \/ Clear

SpecContainer == InitContainer /\ [][NextContainer]_vars

(***************************************************************************)
(* Claims about the service container (SpecContainer)                      *)
(***************************************************************************)
\* a resolve(T) called from outside has returned in this step
Resolved(T) ==
    /\ nops' = nops + 1
    /\ last'.op = "resolve"
    /\ last'.type = T
    /\ last'.ok

\* T was registered with register_singleton
RegisteredSingleton(T) == services[T].lifetime = "singleton" /\ services[T].kind # "lambda"

\* C10: for a type registered as singleton, every resolve since that
\* registration (no clear and no registration of the type in between) returns
\* the identical instance and the implementation has been constructed once;
\* for a type registered as transient, every resolve returns an instance that
\* was constructed by that call and is distinct from all earlier ones.
C10_Lifetimes ==
    /\ [](\A T \in CTypes :
            (RegisteredSingleton(T) /\ returned[T] # {})
            => (Cardinality(returned[T]) = 1 /\ built[T] = 1))
    /\ [][\A T \in CTypes :
            Resolved(T)
            => /\ RegisteredSingleton(T) => returned'[T] = {last'.val}
               /\ services[T].lifetime = "transient"
                  => /\ last'.val \notin 1..Len(created)
                     /\ last'.val \in 1..Len(created')
                     /\ created'[last'.val].cls = T
                     /\ built'[T] = built[T] + 1]_vars

\* a resolve called from outside has just come back
ResolveDone == last.op = "resolve"

\* C11 as stated: a resolve that meets a type still being built on its call
\* stack ends with a service-resolution error reporting a circular dependency.
C11_Original ==
    (ResolveDone /\ last.hits > 0)
    => (~last.ok /\ last.err # <<>> /\ last.err[Len(last.err)] = "circular")

\* C11: a resolve that meets a type still being built on its call stack
\* terminates, leaving _building empty. Unless the error was absorbed by a
\* constructor parameter that has a default value, it ends with a
\* service-resolution error: "Failed to create instance" wrapped around its
\* causes, the innermost of which is the circular-dependency error. When a
\* parameter with a default absorbed it, the default is used instead.
C11_CircularDependency ==
    (ResolveDone /\ last.hits > 0)
    => /\ building = {}
       /\ last.defaults_used = 0
          => /\ ~last.ok
             /\ Len(last.err) >= 2
             /\ last.err[1] = "create_failed"
             /\ last.err[Len(last.err)] = "circular"
       /\ last.ok => last.defaults_used > 0

\* S takes a T and T takes an S: resolve(S) came back to S while building T
C11_Witness ==
    /\ ResolveDone
    /\ last.type = "S"
    /\ last.hits = 1
    /\ last.err = <<"create_failed", "create_failed", "circular">>
    /\ building = {}

\* C30: clear() terminates and removes descriptors and cached singletons
\* together: once it has been called it returns, no type registered before is
\* registered, no singleton is cached, and only the container's own
\* registration remains.
C30_ClearTerminates ==
    last.op = "clear"
    => /\ ~deadlocked
       /\ \A T \in CTypes : services[T] = NoService
       /\ \A T \in CKeys : singletons[T] = 0
       /\ services["ServiceContainer"] = ServiceDescriptor("singleton", "object", 0)

\* the instances that scope sc holds in its cache
CachedIn(sc) == {scoped_instances[sc][T] : T \in CKeys} \ {0}

\* scope.resolve(T) has returned in this step
ScopedResolved(sc, T) ==
    /\ nops' = nops + 1
    /\ last'.op = "scoped_resolve"
    /\ last'.scope = sc
    /\ last'.type = T
    /\ last'.ok

\* scope.dispose() has returned in this step
ScopedDisposed(sc) ==
    /\ nops' = nops + 1
    /\ last'.op = "dispose"
    /\ last'.scope = sc

ThreadIds == 1..MaxThreads

\* one call of resolve on the stack of a thread
Frame(T) == [T |-> T, pc |-> "check", k |-> 1, kwargs |-> <<>>, ok |-> TRUE, val |-> 0,
             err |-> <<>>]

IdleThread == [state |-> "idle", type |-> "none", stack |-> <<>>, ok |-> TRUE, val |-> 0,
               err |-> <<>>]

Top(th) == threads[th].stack[Len(threads[th].stack)]

AtStep(th, pc) ==
    /\ threads[th].state = "running"
    /\ Top(th).pc = pc

SetTop(th, f) == threads' = [threads EXCEPT ![th].stack[Len(threads[th].stack)] = f]

\* the call on top of the stack of th returns or raises r: the thread is done,
\* or the loop of _create_instance_with_injection (lines 165-190), which made
\* the call, goes on
T_Return(th, r) ==
    LET t == threads[th]
        rest == SubSeq(t.stack, 1, Len(t.stack) - 1)
        p == rest[Len(rest)]
        q == IF r.ok THEN [p EXCEPT !.kwargs = Append(@, r.val), !.k = @ + 1, !.pc = "create"]
             ELSE IF cworld[p.T][p.k].default THEN [p EXCEPT !.k = @ + 1, !.pc = "create"]
             ELSE [p EXCEPT !.pc = "finally", !.ok = FALSE,
                            !.err = <<"create_failed">> \o r.err]
    IN  threads' = [threads EXCEPT ![th] =
                       IF rest = <<>>
                       THEN [t EXCEPT !.state = "done", !.stack = <<>>, !.ok = r.ok,
                                      !.val = r.val, !.err = r.err]
                       ELSE [t EXCEPT !.stack = [rest EXCEPT ![Len(rest)] = q]]]

ThreadFrame ==
    /\ UNCHANGED <<cworld, deadlocked, last, nops, scoped_instances, disposals>>
    /\ ContFrame

\* a thread calls container.resolve(T)
T_Call(th, T) ==
    /\ threads[th].state = "idle"
    /\ threads' = [threads EXCEPT ![th] = [IdleThread EXCEPT !.state = "running",
                                                             !.type = T,
                                                             !.stack = <<Frame(T)>>]]
    /\ UNCHANGED <<services, singletons, building, created, returned, built>>
    /\ ThreadFrame

\* resolve, lines 101-104: the test of _building, outside the try block
T_Check(th) ==
    /\ AtStep(th, "check")
    /\ IF Top(th).T \in building
       THEN T_Return(th, [ok |-> FALSE, val |-> 0, err |-> <<"circular">>])
       ELSE SetTop(th, [Top(th) EXCEPT !.pc = "add"])
    /\ UNCHANGED <<services, singletons, building, created, returned, built>>
    /\ ThreadFrame

\* resolve, line 107
T_Add(th) ==
    /\ AtStep(th, "add")
    /\ building' = building \cup {Top(th).T}
    /\ SetTop(th, [Top(th) EXCEPT !.pc = "internal"])
    /\ UNCHANGED <<services, singletons, created, returned, built>>
    /\ ThreadFrame

\* _resolve_internal, lines 115-126: the tests before an instance is made
T_Internal(th) ==
    /\ AtStep(th, "internal")
    /\ LET f == Top(th)
           d == services[f.T]
       IN  SetTop(th,
                  IF d = NoService
                  THEN [f EXCEPT !.pc = "finally", !.ok = FALSE, !.err = <<"not_registered">>]
                  ELSE IF d.lifetime = "singleton" /\ singletons[f.T] # 0
                       THEN [f EXCEPT !.pc = "finally", !.val = singletons[f.T]]
                  ELSE [f EXCEPT !.pc = "create"])
    /\ UNCHANGED <<services, singletons, building, created, returned, built>>
    /\ ThreadFrame

\* _create_instance of a class, lines 134-198: the next parameter of __init__
\* is resolved by a nested call of resolve, or the class is called
T_Create(th) ==
    /\ AtStep(th, "create")
    /\ LET f == Top(th)
           params == cworld[f.T]
           i == Len(created) + 1
       IN  IF f.k <= Len(params)
           THEN /\ threads' = [threads EXCEPT ![th].stack =
                                   Append([@ EXCEPT ![Len(@)].pc = "await"],
                                          Frame(params[f.k].type))]
                /\ UNCHANGED <<created, built>>
           ELSE /\ created' = Append(created, [cls |-> f.T, args |-> f.kwargs])
                /\ built' = [built EXCEPT ![f.T] = @ + 1]
                /\ SetTop(th, [f EXCEPT !.val = i,
                                        !.pc = IF services[f.T].lifetime = "singleton"
                                               THEN "store" ELSE "finally"])
    /\ UNCHANGED <<services, singletons, building, returned>>
    /\ ThreadFrame

\* _resolve_internal, line 129
T_Store(th) ==
    /\ AtStep(th, "store")
    /\ singletons' = [singletons EXCEPT ![Top(th).T] = Top(th).val]
    /\ SetTop(th, [Top(th) EXCEPT !.pc = "finally"])
    /\ UNCHANGED <<services, building, created, returned, built>>
    /\ ThreadFrame

\* resolve, lines 109-110: the finally block, then the call returns or raises
T_Finally(th) ==
    /\ AtStep(th, "finally")
    /\ building' = building \ {Top(th).T}
    /\ returned' = IF Top(th).ok
                   THEN [returned EXCEPT ![Top(th).T] = @ \cup {Top(th).val}]
                   ELSE returned
    /\ T_Return(th, [ok |-> Top(th).ok, val |-> Top(th).val, err |-> Top(th).err])
    /\ UNCHANGED <<services, singletons, created, built>>
    /\ ThreadFrame

\* the worlds in which no constructor needs, directly or through its
\* parameters, the type it constructs
AcyclicWorlds ==
    {w \in CWorlds : \A T \in CTypes : \A i \in 1..Len(w[T]) : w[w[T][i].type] = <<>>}

\* a container on which S and T have been registered with register_singleton
\* or register_transient, each with its class
InitContainerConc ==
    /\ cworld \in AcyclicWorlds
    /\ services \in {d \in [CKeys -> {ServiceDescriptor("singleton", "object", 0)}
                                     \cup {ServiceDescriptor(l, "class", 0) :
                                              l \in {"singleton", "transient"}}] :
                        /\ d["ServiceContainer"].kind = "object"
                        /\ \A T \in CTypes : d[T].kind = "class"}
    /\ singletons = [T \in CKeys |-> 0]
    /\ building = {}
    /\ created = <<>>
    /\ returned = [T \in CKeys |-> {}]
    /\ built = [T \in CKeys |-> 0]
    /\ deadlocked = FALSE
    /\ last = NoCall
    /\ nops = 0
    /\ scoped_instances = [sc \in ScopeIds |-> [T \in CKeys |-> 0]]
    /\ disposals = <<>>
    /\ threads = [th \in ThreadIds |-> IdleThread]
    /\ discovered = [n \in {} |-> <<>>]
    /\ DepsAtRest
    /\ PluginAtRest
    /\ ManagerAtRest
    /\ BusAtRest
    /\ ConfigAtRest

NextContainerConc ==
    \/ \E th \in ThreadIds, T \in CTypes : T_Call(th, T)
    \/ \E th \in ThreadIds : T_Check(th)
    \/ \E th \in ThreadIds : T_Add(th)
    \/ \E th \in ThreadIds : T_Internal(th)
    \/ \E th \in ThreadIds : T_Create(th)
    \/ \E th \in ThreadIds : T_Store(th)
    \/ \E th \in ThreadIds : T_Finally(th)

SpecContainerConc == InitContainerConc /\ [][NextContainerConc]_vars

\* C22: when threads call resolve together on a container whose constructors
\* need no type in a circle, no call ends with a circular-dependency error,
\* the implementation of a singleton is constructed at most once, and the
\* calls that resolve one singleton return one and the same instance.
C22_Serialized ==
    /\ \A th \in ThreadIds :
          threads[th].state = "done" => (threads[th].ok /\ threads[th].err = <<>>)
    /\ \A T \in CTypes :
          services[T].lifetime = "singleton"
          => /\ built[T] <= 1
             /\ Cardinality(returned[T]) <= 1

(***************************************************************************)
(* The event bus (events.py)                                               *)
(*                                                                         *)
(* publish records the event under the bus's lock, which nothing awaits    *)
(* inside, and then runs _execute_handlers. A synchronous handler runs to  *)
(* its end inside the step that invokes it; the await of an asynchronous   *)
(* handler is where a publish may be suspended and others may run. What a  *)
(* handler does when it is invoked (return or raise) belongs to the        *)
(* handler.                                                                *)
(***************************************************************************)
EventTypes == {"e", "f"}

\* the event types handlers are subscribed to: "f" has global handlers only
SubscribedTypes == {"e"}

PubIds == 1..MaxPublishes

\* EventPriority: LOWEST, LOW, NORMAL, HIGH, HIGHEST
EventPriority == {0, 25, 50, 75, 100}

\* EventHandler: the callable (id, whether it is a coroutine function, whether
\* it raises), priority, once, and whether a filter_func rejects the events
EventHandler(id, priority, async_handler, once, raises, filter) ==
    [id |-> id, priority |-> priority, async_handler |-> async_handler, once |-> once,
     raises |-> raises, filter |-> filter]

\* the handlers that are subscribed: LOW or HIGH, any callable without a
\* filter, or a synchronous one whose filter rejects every event
HandlerKinds ==
    {EventHandler(0, pr, a, o, r, "none") : pr \in {25, 75}, a \in BOOLEAN, o \in BOOLEAN,
                                            r \in BOOLEAN}
    \cup {EventHandler(0, 75, FALSE, o, FALSE, "block") : o \in BOOLEAN}

\* list.sort(key=lambda h: h.priority.value, reverse=True): the sort is stable
SortByPriority(hs) ==
    LET sel(pr) == SelectSeq(hs, LAMBDA h : h.priority = pr)
    IN  sel(100) \o sel(75) \o sel(50) \o sel(25) \o sel(0)

\* the event bus and its coroutines as one value
Bus ==
    [handlers |-> handlers, global_handlers |-> global_handlers, stats |-> stats,
     pubs |-> pubs, calls |-> calls, event_history |-> event_history,
     published |-> published, unsub |-> unsub]

BusSet(b) ==
    /\ handlers' = b.handlers
    /\ global_handlers' = b.global_handlers
    /\ stats' = b.stats
    /\ pubs' = b.pubs
    /\ calls' = b.calls
    /\ event_history' = b.event_history
    /\ published' = b.published
    /\ unsub' = b.unsub
    /\ UNCHANGED capacity
    /\ BusFrame

Call(p, h, what) ==
    [pub |-> p, h |-> h.id, priority |-> h.priority, once |-> h.once, what |-> what]

RECURSIVE RemoveOneTime(_, _)
\* _execute_handlers, lines 226-235: the one-time handlers that ran are taken
\* out of their list, and publish returns
RemoveOneTime(b, p) ==
    LET rm == b.pubs[p].remove
        type == Head(rm)[1]
        h == Head(rm)[2]
        keep(hs) == SelectSeq(hs, LAMBDA x : x # h)
        b1 == [b EXCEPT !.pubs[p].remove = Tail(rm)]
    IN  IF rm = <<>> THEN [b EXCEPT !.pubs[p].pc = "done"]
        ELSE IF type \in DOMAIN b.handlers
             THEN RemoveOneTime([b1 EXCEPT !.handlers[type] = keep(@)], p)
        ELSE RemoveOneTime([b1 EXCEPT !.global_handlers = keep(@)], p)

\* _execute_handlers that lets the exception of a handler through
HandlerDone_reraises(b, p) ==
    LET h == Head(b.pubs[p].todo)
        b1 == [b EXCEPT !.pubs[p].todo = Tail(@)]
    IN  IF h.raises
        THEN [b EXCEPT !.pubs[p].todo = <<>>, !.pubs[p].remove = <<>>,
                       !.calls = Append(@, Call(p, h, "raise"))]
        ELSE [b1 EXCEPT !.stats.handlers_executed = @ + 1,
                        !.calls = Append(@, Call(p, h, "end")),
                        !.pubs[p].remove = IF h.once THEN Append(@, <<b.pubs[p].event.type, h>>)
                                           ELSE @]

\* _execute_handlers, lines 210-224: the handler at the head of the list has
\* returned or raised
HandlerDone(b, p) ==
    LET h == Head(b.pubs[p].todo)
        b1 == [b EXCEPT !.pubs[p].todo = Tail(@)]
    IN  IF h.raises
        THEN [b1 EXCEPT !.stats.errors = @ + 1, !.calls = Append(@, Call(p, h, "raise"))]
        ELSE [b1 EXCEPT !.stats.handlers_executed = @ + 1,
                        !.calls = Append(@, Call(p, h, "end")),
                        !.pubs[p].remove = IF h.once THEN Append(@, <<b.pubs[p].event.type, h>>)
                                           ELSE @]

RECURSIVE RunHandlers(_, _)
\* _execute_handlers, lines 204-224: the loop, up to the await of the next
\* asynchronous handler or to the end of the list
RunHandlers(b, p) ==
    LET todo == b.pubs[p].todo
        h == Head(todo)
        invoked == [b EXCEPT !.calls = Append(@, Call(p, h, "start"))]
    IN  IF todo = <<>> THEN RemoveOneTime(b, p)
        ELSE IF h.filter = "block" THEN RunHandlers([b EXCEPT !.pubs[p].todo = Tail(@)], p)
        ELSE IF h.async_handler THEN [invoked EXCEPT !.pubs[p].pc = "handler"]
        ELSE RunHandlers(HandlerDone(invoked, p), p)

\* _execute_handlers without its sort of the collected handlers
handlers_to_execute_unsorted(b, type) ==
    (IF type \in DOMAIN b.handlers THEN b.handlers[type] ELSE <<>>) \o b.global_handlers

\* _execute_handlers, lines 189-199: the handlers of the type, then the global
\* ones, sorted by priority
handlers_to_execute(b, type) ==
    SortByPriority((IF type \in DOMAIN b.handlers THEN b.handlers[type] ELSE <<>>)
                   \o b.global_handlers)

\* publish that drops the newest event when the history is full
record_event_dropNewest(b, event) ==
    [b EXCEPT !.event_history = IF Len(@) >= capacity THEN @ ELSE Append(@, event),
              !.stats.events_published = @ + 1,
              !.published = Append(@, event)]

\* publish, lines 174-180: the event is appended to the history and the oldest
\* one is popped when the history is over its size
record_event(b, event) ==
    LET h == Append(b.event_history, event)
    IN  [b EXCEPT !.event_history = IF Len(h) > capacity THEN Tail(h) ELSE h,
                  !.stats.events_published = @ + 1,
                  !.published = Append(@, event)]

\* subscribe(event_type, handler, priority, once, filter_func)
Subscribe(type, kind) ==
    /\ nsubs < MaxSubscriptions
    /\ nsubs' = nsubs + 1
    /\ LET h == [kind EXCEPT !.id = nsubs + 1]
           old == IF type \in DOMAIN handlers THEN handlers[type] ELSE <<>>
       IN  BusSet([Bus EXCEPT !.handlers = (type :> SortByPriority(Append(old, h))) @@ @])

\* subscribe_global(handler, priority, filter_func): never a one-time handler
SubscribeGlobal(kind) ==
    /\ nsubs < MaxSubscriptions
    /\ ~kind.once
    /\ nsubs' = nsubs + 1
    /\ LET h == [kind EXCEPT !.id = nsubs + 1]
       IN  BusSet([Bus EXCEPT !.global_handlers = SortByPriority(Append(@, h))])

\* unsubscribe(event_type, handler) of a handler that is subscribed
Unsubscribe(type, id) ==
    /\ type \in DOMAIN handlers
    /\ \E i \in 1..Len(handlers[type]) : handlers[type][i].id = id
    /\ BusSet([Bus EXCEPT !.handlers[type] = SelectSeq(@, LAMBDA h : h.id # id)])
    /\ UNCHANGED nsubs

\* unsubscribe_global(handler) of a handler that is subscribed
UnsubscribeGlobal(id) ==
    /\ \E i \in 1..Len(global_handlers) : global_handlers[i].id = id
    /\ BusSet([Bus EXCEPT !.global_handlers = SelectSeq(@, LAMBDA h : h.id # id)])
    /\ UNCHANGED nsubs

\* await bus.publish(event): up to the await of the first asynchronous handler
Publish(p, type) ==
    /\ pubs[p].pc = "idle"
    /\ \A q \in 1..(p - 1) : pubs[q].pc # "idle"
    /\ LET event == [type |-> type, id |-> p]
           b == record_event(Bus, event)
       IN  BusSet(RunHandlers([b EXCEPT !.pubs[p] = [NoPublish EXCEPT
                                                        !.event = event,
                                                        !.snapshot = handlers_to_execute(b, type),
                                                        !.todo = handlers_to_execute(b, type)]],
                              p))
    /\ UNCHANGED nsubs

\* the asynchronous handler a publish awaits returns or raises
HandlerReturns(p) ==
    /\ pubs[p].pc = "handler"
    /\ BusSet(RunHandlers(HandlerDone([Bus EXCEPT !.pubs[p].pc = "dispatch"], p), p))
    /\ UNCHANGED nsubs

\* clear_history()
ClearHistory ==
    /\ event_history # <<>>
    /\ BusSet([Bus EXCEPT !.event_history = <<>>, !.published = <<>>])
    /\ UNCHANGED nsubs

\* clear_handlers()
ClearHandlers ==
    /\ DOMAIN handlers # {} \/ global_handlers # <<>>
    /\ BusSet([Bus EXCEPT !.handlers = [t \in {} |-> <<>>], !.global_handlers = <<>>])
    /\ UNCHANGED nsubs

\* EventBus.__init__, lines 87-97; the history size is an attribute of the bus
InitBus ==
    /\ capacity \in 1..MaxCapacity
    /\ handlers = [t \in {} |-> <<>>]
    /\ global_handlers = <<>>
    /\ stats = NoStats
    /\ pubs = [p \in PubIds |-> NoPublish]
    /\ calls = <<>>
    /\ published = <<>>
    /\ nsubs = 0
    /\ unsub = NoUnsub
    /\ discovered = [n \in {} |-> <<>>]
    /\ DepsAtRest
    /\ PluginAtRest
    /\ ManagerAtRest
    /\ ContainerAtRest
    /\ ConfigAtRest

NextBus ==
    \/ \E type \in SubscribedTypes, kind \in HandlerKinds : Subscribe(type, kind)
    \/ \E kind \in HandlerKinds : SubscribeGlobal(kind)
    \/ \E type \in SubscribedTypes, id \in 1..MaxSubscriptions : Unsubscribe(type, id)
    \/ \E id \in 1..MaxSubscriptions : UnsubscribeGlobal(id)
    \/ \E p \in PubIds, type \in EventTypes : Publish(p, type)
    \/ \E p \in PubIds : HandlerReturns(p)
    \/ ClearHistory
    \/ ClearHandlers

SpecBus == InitBus /\ [][NextBus]_vars

(***************************************************************************)
(* Claims about the event bus (SpecBus)                                    *)
(***************************************************************************)
\* the invocations made by the publish p, in order
CallsOf(p) == SelectSeq(calls, LAMBDA c : c.pub = p)

\* the handlers a publish invokes: those it collected whose filter lets the
\* event through
Runnable(p) == SelectSeq(pubs[p].snapshot, LAMBDA h : h.filter # "block")

\* the invocations of one publish come in pairs: a handler starts, then the
\* same handler returns or raises, before the next one starts
OneAtATime(cs) ==
    \A i \in 1..Len(cs) :
        IF i % 2 = 1 THEN cs[i].what = "start"
        ELSE cs[i].what \in {"end", "raise"} /\ cs[i].h = cs[i - 1].h

\* C12: within one publish call the handlers that run (those of the event's
\* type together with the global ones) are invoked one at a time in
\* non-increasing priority order: each returns or raises before the next one
\* starts, and none starts after a handler of lower priority.
C12_PriorityOrder ==
    \A p \in PubIds :
        LET cs == CallsOf(p)
        IN  /\ OneAtATime(cs)
            /\ \A i, j \in 1..Len(cs) : i < j => cs[i].priority >= cs[j].priority
            /\ \A i \in 1..Len(cs) : cs[i].h = Runnable(p)[(i + 1) \div 2].id

\* a publish has run a global HIGH handler and then a LOW handler of the
\* event's type that was subscribed first, while another publish was under way
C12_Witness ==
    \E p \in PubIds :
        /\ pubs[p].pc = "done"
        /\ Len(CallsOf(p)) = 4
        /\ CallsOf(p)[1].h = 2 /\ CallsOf(p)[1].priority = 75
        /\ CallsOf(p)[3].h = 1 /\ CallsOf(p)[3].priority = 25
        /\ \E i \in DOMAIN global_handlers : global_handlers[i].id = 2
        /\ CallsOf(p) # calls

\* C13: a handler subscribed with once=True is invoked for one event only,
\* whether its first execution returns or raises and also when publishes
\* overlap.
C13_OnceHandler ==
    \A id \in 1..MaxSubscriptions :
        Cardinality({i \in DOMAIN calls :
                        calls[i].h = id /\ calls[i].once /\ calls[i].what = "start"}) <= 1

Count(what) == Cardinality({i \in DOMAIN calls : calls[i].what = what})

\* C14: a handler that raises does not stop the dispatch: the publish goes on
\* through every handler it collected, in order, each exception adds one to
\* the error counter (and each return one to handlers_executed), and the
\* publish returns.
C14_RaisingHandler ==
    /\ stats.errors = Count("raise")
    /\ stats.handlers_executed = Count("end")
    /\ \A p \in PubIds :
          /\ Len(CallsOf(p)) <= 2 * Len(Runnable(p))
          /\ \A i \in 1..Len(CallsOf(p)) : CallsOf(p)[i].h = Runnable(p)[(i + 1) \div 2].id
          /\ pubs[p].pc = "done" => Len(CallsOf(p)) = 2 * Len(Runnable(p))
          /\ (pubs[p].pc \notin {"idle", "done"}) => pubs[p].todo # <<>>

\* a publish has returned after its first handler raised and its second ran
C14_Witness ==
    \E p \in PubIds :
        /\ pubs[p].pc = "done"
        /\ Len(CallsOf(p)) = 4
        /\ CallsOf(p)[2].what = "raise"
        /\ CallsOf(p)[4].what = "end"
        /\ stats.errors = 1

\* the last n entries of a sequence
LastN(s, n) == SubSeq(s, Len(s) - n + 1, Len(s))

Min(a, b) == IF a < b THEN a ELSE b

Leaf(v) == [kind |-> "leaf", val |-> v, map |-> <<>>]
Dict(f) == [kind |-> "map", val |-> "", map |-> f]
IsDict(v) == v.kind = "map"

\* the dict {k: v}
Entry(k, v) == [x \in {k} |-> v]

K_plugins == <<"plugins">>
K_auto_load == <<"auto", "_", "load">>
K_hot_reload == <<"hot", "_", "reload">>
K_logging == <<"logging">>
K_level == <<"level">>
K_extra == <<"extra">>

\* ConfigManager.__init__, lines 45-59: the built-in defaults (of the section
\* plugins the two flags, of logging the level; the section system is left out)
defaults ==
    Entry(K_plugins, Dict(Entry(K_auto_load, Leaf("True")) @@ Entry(K_hot_reload, Leaf("True"))))
    @@ Entry(K_logging, Dict(Entry(K_level, Leaf("INFO"))))

\* _load_environment, line 167
prefix == <<"ALSANIAMCP", "_">>

\* str.lower on one word
LowerWord(w) ==
    CASE w = "ALSANIAMCP" -> "alsaniamcp"
      [] w = "OTHER" -> "other"
      [] w = "PLUGINS" -> "plugins"
      [] w = "AUTO" -> "auto"
      [] w = "LOAD" -> "load"
      [] w = "LOGGING" -> "logging"
      [] w = "LEVEL" -> "level"
      [] w = "FALSE" -> "false"
      [] OTHER -> w

\* str.lower, str.replace, str.startswith and str.split
lower(s) == [i \in 1..Len(s) |-> LowerWord(s[i])]

replace(s, a, b) == [i \in 1..Len(s) |-> IF s[i] = a THEN b ELSE s[i]]

startswith(s, pre) == Len(s) >= Len(pre) /\ SubSeq(s, 1, Len(pre)) = pre

RECURSIVE split(_, _)
split(s, sep) ==
    IF sep \notin Range(s) THEN <<s>>
    ELSE LET i == IndexOf(s, sep)
         IN  <<SubSeq(s, 1, i - 1)>> \o split(SubSeq(s, i + 1, Len(s)), sep)

\* _convert_value, lines 190-215, on the values an environment variable of
\* the model has (none of them a number or a JSON text)
convert_value(value) ==
    IF LowerWord(value) \in {"true", "yes", "1"} THEN Leaf("True")
    ELSE IF LowerWord(value) \in {"false", "no", "0"} THEN Leaf("False")
    ELSE Leaf(value)

\* the dict f with v stored under the path keys, the dicts on the way made
\* where they are missing (the loop of _set_nested_value and of set)
RECURSIVE set_path(_, _, _)
set_path(f, keys, v) ==
    LET k1 == keys[1]
    IN  IF Len(keys) = 1
        THEN [k \in DOMAIN f \cup {k1} |-> IF k = k1 THEN v ELSE f[k]]
        ELSE LET sub == IF k1 \in DOMAIN f THEN f[k1].map ELSE <<>>
             IN  [k \in DOMAIN f \cup {k1} |->
                     IF k = k1 THEN Dict(set_path(sub, Tail(keys), v)) ELSE f[k]]

\* the loop goes through: every value met on the way is a dict
RECURSIVE can_set_path(_, _)
can_set_path(f, keys) ==
    \/ Len(keys) = 1
    \/ keys[1] \notin DOMAIN f
    \/ IsDict(f[keys[1]]) /\ can_set_path(f[keys[1]].map, Tail(keys))

\* _set_nested_value, lines 177-188
set_nested_value(config, key, value) == set_path(config, split(key, "."), convert_value(value))

\* _load_environment, lines 164-175: the loop over os.environ
RECURSIVE load_environment_from(_, _)
load_environment_from(config, vs) ==
    IF vs = {} THEN config
    ELSE LET v == CHOOSE x \in vs : TRUE
             config_key == replace(lower(SubSeq(v.name, Len(prefix) + 1, Len(v.name))), "_", ".")
         IN  load_environment_from(IF startswith(v.name, prefix)
                                   THEN set_nested_value(config, config_key, v.value)
                                   ELSE config,
                                   vs \ {v})

load_environment == load_environment_from(<<>>, environ)

\* _merge_config, lines 217-227
RECURSIVE merge_config(_, _)
merge_config(base, override) ==
    [k \in DOMAIN base \cup DOMAIN override |->
        IF k \notin DOMAIN override THEN base[k]
        ELSE IF k \in DOMAIN base /\ IsDict(base[k]) /\ IsDict(override[k])
        THEN Dict(merge_config(base[k].map, override[k].map))
        ELSE override[k]]

NoFile == [exists |-> FALSE, content |-> <<>>]
File(content) == [exists |-> TRUE, content |-> content]

\* _load_source, lines 125-149: None (here the empty dict, which load_all
\* skips just as it skips None) when the file does not exist
load_source(source) == IF files[source.path].exists THEN files[source.path].content ELSE <<>>

\* ConfigSource, lines 22-30
ConfigSource(name, priority) == [name |-> name, path |-> name, priority |-> priority, watch |-> TRUE]

\* list.sort(key=lambda s: s.priority), line 78: ascending and stable
RECURSIVE sort_by_priority(_)
sort_by_priority(srcs) ==
    IF srcs = <<>> THEN <<>>
    ELSE LET m == CHOOSE p \in {srcs[i].priority : i \in 1..Len(srcs)} :
                      \A i \in 1..Len(srcs) : p <= srcs[i].priority
         IN  SelectSeq(srcs, LAMBDA x : x.priority = m)
             \o sort_by_priority(SelectSeq(srcs, LAMBDA x : x.priority # m))

\* add_source, lines 63-80
add_source(srcs, source) == sort_by_priority(Append(srcs, source))

\* load_all, lines 101-108: the loop over the sources
RECURSIVE merge_sources(_, _)
merge_sources(config, srcs) ==
    IF srcs = <<>> THEN config
    ELSE LET source_config == load_source(Head(srcs))
         IN  merge_sources(IF source_config # <<>> THEN merge_config(config, source_config)
                           ELSE config,
                           Tail(srcs))

\* load_all, lines 98-113: the new configuration
load_all_config ==
    LET new_config == merge_sources(cm_defaults, cm_sources)
        env_config == load_environment
    IN  IF env_config # <<>> THEN merge_config(new_config, env_config) ELSE new_config

\* the top-level keys that a source read by load_all or the environment gives
Overridden ==
    UNION {DOMAIN load_source(cm_sources[i]) : i \in 1..Len(cm_sources)} \cup DOMAIN load_environment

\* _find_changes, lines 298-319
RECURSIVE find_changes(_, _, _)
find_changes(old, new, pre) ==
    LET full_key(k) == IF pre = <<>> THEN k ELSE pre \o <<".">> \o k
        changed ==
            UNION {IF k \notin DOMAIN old
                   THEN {[key |-> full_key(k), old |-> None, new |-> new[k]]}
                   ELSE IF IsDict(new[k]) /\ IsDict(old[k])
                   THEN find_changes(old[k].map, new[k].map, full_key(k))
                   ELSE IF old[k] # new[k]
                   THEN {[key |-> full_key(k), old |-> old[k], new |-> new[k]]}
                   ELSE {} : k \in DOMAIN new}
        removed == {[key |-> full_key(k), old |-> old[k], new |-> None] : k \in DOMAIN old \ DOMAIN new}
    IN  changed \cup removed

\* the loop over the watchers that an exception of a watcher ends
RECURSIVE call_watchers_untilRaise(_, _, _, _)
call_watchers_untilRaise(ws, key, old, new) ==
    IF ws = <<>> THEN <<>>
    ELSE <<[watcher |-> Head(ws).id, key |-> key, old |-> old, new |-> new]>>
         \o (IF Head(ws).raises THEN <<>> ELSE call_watchers_untilRaise(Tail(ws), key, old, new))

\* lines 280-284 and 347-351: every watcher is called, what it raises is logged
call_watchers(ws, key, old, new) ==
    [i \in 1..Len(ws) |-> [watcher |-> ws[i].id, key |-> key, old |-> old, new |-> new]]

\* _notify_changes, lines 274-296, of a manager without event bus
RECURSIVE notify_each(_)
notify_each(changes) ==
    IF changes = <<>> THEN <<>>
    ELSE call_watchers(cm_watchers, Head(changes).key, Head(changes).old, Head(changes).new)
         \o notify_each(Tail(changes))

notify_changes(old_config, new_config) == notify_each(SetToSeq(find_changes(old_config, new_config, <<>>)))

\* get, lines 321-331, with None as the default
RECURSIVE get_path(_, _)
get_path(f, keys) ==
    IF keys[1] \notin DOMAIN f THEN None
    ELSE IF Len(keys) = 1 THEN f[keys[1]]
    ELSE IF IsDict(f[keys[1]]) THEN get_path(f[keys[1]].map, Tail(keys))
    ELSE None

get(key) == get_path(cm_config, split(key, "."))

ConfigOp(op, key) ==
    /\ cm_nops < MaxConfigOps
    /\ cm_nops' = cm_nops + 1
    /\ cm_last' = [op |-> op, key |-> key, old |-> cm_config]
    /\ ConfigFrame

\* the body of load_all, lines 94-123
load_all ==
    /\ cm_config' = load_all_config
    /\ cm_shared' = DOMAIN cm_defaults \ Overridden
    /\ notified' = notify_changes(cm_config, load_all_config)
    /\ cm_file_watchers' =
           cm_file_watchers \cup {cm_sources[i].path : i \in {j \in 1..Len(cm_sources) : cm_sources[j].watch}}
    /\ UNCHANGED <<cm_defaults, cm_sources, cm_watchers, files, environ>>

SourceNames == {"a", "b"}
SourcePriorities == {100, 200}

\* add_source, lines 63-80
AddSource(name, priority) ==
    /\ \A i \in 1..Len(cm_sources) : cm_sources[i].name # name
    /\ ConfigOp("add_source", <<>>)
    /\ cm_sources' = add_source(cm_sources, ConfigSource(name, priority))
    /\ notified' = <<>>
    /\ UNCHANGED <<cm_defaults, cm_config, cm_shared, cm_watchers, cm_file_watchers, files, environ>>

\* load_all, lines 94-123
LoadAll ==
    /\ ConfigOp("load_all", <<>>)
    /\ load_all

\* reload_source, lines 258-272
ReloadSource(source_name) ==
    /\ ConfigOp("reload_source", <<>>)
    /\ IF \E i \in 1..Len(cm_sources) : cm_sources[i].name = source_name
       THEN load_all
       ELSE /\ notified' = <<>>
            /\ UNCHANGED <<cm_defaults, cm_config, cm_shared, cm_sources, cm_watchers,
                           cm_file_watchers, files, environ>>

SetKeys == {K_plugins \o <<".">> \o K_auto_load, K_extra}
SetValues == {Leaf("True"), Leaf("False")}

\* set, lines 333-351; where a value on the way is not a dict the loop raises
\* before anything is written
Set(key, value) ==
    LET keys == split(key, ".")
    IN  /\ ConfigOp("set", key)
        /\ IF can_set_path(cm_config, keys)
           THEN /\ cm_config' = set_path(cm_config, keys, value)
                /\ cm_defaults' = IF Len(keys) > 1 /\ keys[1] \in cm_shared
                                  THEN set_path(cm_defaults, keys, value)
                                  ELSE cm_defaults
                /\ cm_shared' = IF Len(keys) = 1 THEN cm_shared \ {keys[1]} ELSE cm_shared
                /\ notified' = call_watchers(cm_watchers, key, get_path(cm_config, keys), value)
           ELSE /\ notified' = <<>>
                /\ UNCHANGED <<cm_defaults, cm_config, cm_shared>>
        /\ UNCHANGED <<cm_sources, cm_watchers, cm_file_watchers, files, environ>>

\* watch, lines 353-355
Watch(raises) ==
    /\ Len(cm_watchers) < MaxWatchers
    /\ \A i \in 1..Len(cm_watchers) : cm_watchers[i].id # Len(cm_watchers) + 1
    /\ ConfigOp("watch", <<>>)
    /\ cm_watchers' = Append(cm_watchers, [id |-> Len(cm_watchers) + 1, raises |-> raises])
    /\ notified' = <<>>
    /\ UNCHANGED <<cm_defaults, cm_config, cm_shared, cm_sources, cm_file_watchers, files, environ>>

\* unwatch, lines 357-362
Unwatch(id) ==
    /\ \E i \in 1..Len(cm_watchers) : cm_watchers[i].id = id
    /\ ConfigOp("unwatch", <<>>)
    /\ cm_watchers' = SelectSeq(cm_watchers, LAMBDA w : w.id # id)
    /\ notified' = <<>>
    /\ UNCHANGED <<cm_defaults, cm_config, cm_shared, cm_sources, cm_file_watchers, files, environ>>

\* what the files of the sources may hold
FileContents ==
    { Entry(K_plugins, Dict(Entry(K_auto_load, Leaf("a")))) @@ Entry(K_extra, Leaf("a")),
      Entry(K_plugins, Dict(Entry(K_auto_load, Leaf("b")))),
      Entry(K_plugins, Leaf("off")) }

\* the environment variables that may be set
EnvVars ==
    { [name |-> <<"ALSANIAMCP", "_", "PLUGINS", "_", "AUTO", "_", "LOAD">>, value |-> "false"],
      [name |-> <<"ALSANIAMCP", "_", "LOGGING", "_", "LEVEL">>, value |-> "debug"],
      [name |-> <<"OTHER", "_", "LOGGING", "_", "LEVEL">>, value |-> "other"] }

\* somebody writes or removes the file of a source
WriteFile(path, file) ==
    /\ files[path] # file
    /\ files' = [files EXCEPT ![path] = file]
    /\ cm_last' = [op |-> "write_file", key |-> <<>>, old |-> cm_config]
    /\ UNCHANGED <<cm_defaults, cm_config, cm_shared, cm_sources, cm_watchers, cm_file_watchers,
                   environ, notified, cm_nops>>
    /\ ConfigFrame

\* the process is started with these environment variables
InitConfig ==
    /\ cm_defaults = defaults
    /\ cm_config = defaults
    /\ cm_shared = DOMAIN defaults
    /\ cm_sources = <<>>
    /\ cm_watchers = <<>>
    /\ cm_file_watchers = {}
    /\ files \in [SourceNames -> {NoFile} \cup {File(c) : c \in FileContents}]
    /\ environ \in SUBSET EnvVars
    /\ notified = <<>>
    /\ cm_last = NoConfigOp
    /\ cm_nops = 0
    /\ watch_tasks = <<>>
    /\ cm_shutdown = NoShutdown
    /\ cm_lock = [holder |-> 0, waiting |-> <<>>]
    /\ reloads = <<>>
    /\ cm_event_bus = "none"
    /\ bus_events = NoEvents
    /\ discovered = [n \in {} |-> <<>>]
    /\ DepsAtRest
    /\ PluginAtRest
    /\ ManagerAtRest
    /\ ContainerAtRest
    /\ BusAtRest

NextConfig ==
    \/ \E name \in SourceNames, priority \in SourcePriorities : AddSource(name, priority)
    \/ LoadAll
    \/ \E name \in SourceNames : ReloadSource(name)
    \/ \E key \in SetKeys, value \in SetValues : Set(key, value)
    \/ \E raises \in BOOLEAN : Watch(raises)
    \/ \E id \in 1..MaxWatchers : Unwatch(id)
    \/ \E path \in SourceNames, file \in {NoFile} \cup {File(c) : c \in FileContents} :
          WriteFile(path, file)

SpecConfig == InitConfig /\ [][NextConfig]_vars

(***************************************************************************)
(* Claims about the configuration manager (SpecConfig)                     *)
(***************************************************************************)
\* the paths of a dict that lead to a leaf or to an empty dict
RECURSIVE LeafPaths(_)
LeafPaths(f) ==
    UNION {IF IsDict(f[k]) /\ f[k].map # <<>>
           THEN {<<k>> \o q : q \in LeafPaths(f[k].map)}
           ELSE {<<k>>} : k \in DOMAIN f}

\* every path of a dict
PathsOf(f) == UNION {{SubSeq(q, 1, n) : n \in 1..Len(q)} : q \in LeafPaths(f)}

IsPrefixPath(a, b) == Len(a) <= Len(b) /\ SubSeq(b, 1, Len(a)) = a

\* the path keys exists in the dict f
Has(f, keys) == \E q \in PathsOf(f) : q = keys

\* those who provide configuration, lowest precedence first: the built-in
\* defaults, the files of the sources by priority, the environment
Providers ==
    {[layer |-> 0, priority |-> 0, config |-> defaults]}
    \cup {[layer |-> 1, priority |-> cm_sources[i].priority, config |-> load_source(cm_sources[i])] :
             i \in 1..Len(cm_sources)}
    \cup {[layer |-> 2, priority |-> 0, config |-> load_environment]}

Higher(q, pr) == q.layer > pr.layer \/ (q.layer = pr.layer /\ q.priority > pr.priority)

\* the provider decides what is at the path: it has a value there, or a leaf
\* on the way to it (which replaces the dict the path would go through)
Covers(pr, keys) ==
    \/ Has(pr.config, keys)
    \/ \E n \in 1..(Len(keys) - 1) :
          Has(pr.config, SubSeq(keys, 1, n)) /\ ~IsDict(get_path(pr.config, SubSeq(keys, 1, n)))

\* what the configuration holds at the path is what the provider decides
Decides(pr, keys) ==
    IF ~Has(pr.config, keys) THEN get_path(cm_config, keys) = None
    ELSE IF IsDict(get_path(pr.config, keys)) THEN IsDict(get_path(cm_config, keys))
    ELSE get_path(cm_config, keys) = get_path(pr.config, keys)

\* C16: after load_all the configuration holds, at every key, the value of the
\* highest-precedence provider of that key: the built-in defaults are
\* overridden by the files of the sources in ascending priority, whatever the
\* order of the add_source calls, and these by the environment; dicts are
\* merged key by key.
C16_Precedence ==
    cm_last.op = "load_all"
    => \A keys \in PathsOf(cm_config) \cup UNION {PathsOf(pr.config) : pr \in Providers} :
          \E pr \in Providers :
              /\ Covers(pr, keys)
              /\ \A q \in Providers : Higher(q, pr) => ~Covers(q, keys)
              /\ Decides(pr, keys)

dotted(k1, k2) == k1 \o <<".">> \o k2

\* C17: the environment variable PREFIX_PLUGINS_AUTO_LOAD sets the key
\* plugins.auto_load: after load_all the configuration holds the converted
\* value of the variable there, not the default.
C17_EnvUnderscoreKey ==
    \A v \in environ :
        (cm_last.op = "load_all" /\ v.name = prefix \o <<"PLUGINS", "_", "AUTO", "_", "LOAD">>)
        => get(dotted(K_plugins, K_auto_load)) = convert_value(v.value)

\* the calls the latest operation made of the watcher w
CallsOfWatcher(w) == SelectSeq(notified, LAMBDA c : c.watcher = w.id)

\* the watcher was called once for each key that differs between old and new,
\* with the key, the old and the new value, and for no other key
NotifiedOfChanges(w, old, new) ==
    LET cs == CallsOfWatcher(w)
        keys(i) == split(cs[i].key, ".")
    IN  /\ \A i \in 1..Len(cs) :
              /\ cs[i].old = get_path(old, keys(i))
              /\ cs[i].new = get_path(new, keys(i))
              /\ cs[i].old # cs[i].new
        /\ \A q \in LeafPaths(old) \cup LeafPaths(new) :
              get_path(old, q) # get_path(new, q)
              => Cardinality({i \in 1..Len(cs) : IsPrefixPath(keys(i), q)}) = 1
        /\ \A i, j \in 1..Len(cs) : cs[i].key = cs[j].key => i = j

\* C18 as stated: after load_all, reload_source or set every registered
\* watcher has been called exactly once for each key added, changed or removed
\* and for no key whose value is unchanged, also when a watcher raises.
C18_Original ==
    cm_last.op \in {"load_all", "reload_source", "set"}
    => \A i \in 1..Len(cm_watchers) : NotifiedOfChanges(cm_watchers[i], cm_last.old, cm_config)

\* C18: load_all and reload_source call every registered watcher exactly once
\* for each key added, changed or removed and for no unchanged key; set calls
\* every registered watcher exactly once with the key it was given, the value
\* it found there (None if there was none) and the value it wrote, whether or
\* not the two differ, and calls none when it raises; a watcher that raises
\* keeps no other watcher from being called.
C18_Notifications ==
    /\ cm_last.op \in {"load_all", "reload_source"}
       => \A i \in 1..Len(cm_watchers) : NotifiedOfChanges(cm_watchers[i], cm_last.old, cm_config)
    /\ cm_last.op = "set"
       => IF can_set_path(cm_last.old, split(cm_last.key, "."))
          THEN \A i \in 1..Len(cm_watchers) :
                  CallsOfWatcher(cm_watchers[i])
                      = <<[watcher |-> cm_watchers[i].id, key |-> cm_last.key,
                           old |-> get_path(cm_last.old, split(cm_last.key, ".")),
                           new |-> get(cm_last.key)]>>
          ELSE notified = <<>> /\ cm_config = cm_last.old

\* a load_all that changed two keys has called two watchers for each, the
\* first of which raises
C18_Witness ==
    /\ cm_last.op = "load_all"
    /\ Len(cm_watchers) = 2
    /\ cm_watchers[1].raises
    /\ Len(notified) = 4
    /\ Len(CallsOfWatcher(cm_watchers[2])) = 2

(***************************************************************************)
(* The background loops and their shutdown (SpecLoops): the health-monitor *)
(* loop of a plugin manager that initialize() has started with A and B     *)
(* loaded, and the file-watcher loops of a configuration manager with two  *)
(* watched sources.  CancelledError is not an Exception (Python 3.8 and    *)
(* later): the "except Exception" clauses on the way let it through.       *)
(***************************************************************************)
RunningLoop == [pc |-> "sleep", cancel |-> FALSE, outcome |-> "running", rounds |-> 0]

WatchStep(path, task) ==
    /\ watch_tasks' = [watch_tasks EXCEPT ![path] = task]
    /\ UNCHANGED <<discovered, depVars, plugVars, mgrVars, contVars, busVars, cfgVars,
                   cm_shutdown, cm_lock, reloads, cm_event_bus, bus_events>>

\* _watch_file, lines 243-250: the sleep of one second is over.  The file is
\* as it was ("same"), or it is newer and reload_source is awaited ("newer"),
\* or looking at it raises ("error") and the loop sleeps 5 seconds (254-256)
WatchWake(path, found) ==
    /\ Suspended(watch_tasks[path], "sleep")
    /\ found # "same"
    /\ WatchStep(path, [watch_tasks[path] EXCEPT !.pc = IF found = "newer" THEN "reload"
                                                        ELSE "backoff"])

\* _watch_file, lines 249-250: reload_source has returned; it raises nothing
\* (lines 265-272)
WatchReloaded(path) ==
    /\ Suspended(watch_tasks[path], "reload")
    /\ WatchStep(path, [watch_tasks[path] EXCEPT !.pc = "sleep"])

\* _watch_file, line 256: the back-off sleep is over
WatchBackoffDone(path) ==
    /\ Suspended(watch_tasks[path], "backoff")
    /\ WatchStep(path, [watch_tasks[path] EXCEPT !.pc = "sleep"])

\* the task resumes after cancel(): CancelledError is raised at its await
WatchCancelled(path) ==
    /\ watch_tasks[path].outcome = "running"
    /\ watch_tasks[path].cancel
    /\ WatchStep(path, cancelled_at(watch_tasks[path]))

\* await config_manager.shutdown(), lines 368-379: every task of
\* _file_watchers is cancelled; with no task the dict is cleared at once
CallConfigShutdown ==
    /\ cm_shutdown.pc # "gather"
    /\ cm_shutdown.calls < MaxShutdownCalls
    /\ watch_tasks' = [p \in DOMAIN watch_tasks |->
                          IF p \in cm_file_watchers THEN cancel(watch_tasks[p])
                          ELSE watch_tasks[p]]
    /\ cm_shutdown' = [pc |-> IF cm_file_watchers = {} THEN "done" ELSE "gather",
                       calls |-> cm_shutdown.calls + 1]
    /\ UNCHANGED <<cm_defaults, cm_config, cm_shared, cm_sources, cm_watchers, cm_file_watchers,
                   files, environ, notified, cm_last, cm_nops, cm_lock, reloads, cm_event_bus, bus_events>>
    /\ UNCHANGED <<discovered, depVars, plugVars, mgrVars, contVars, busVars>>

\* shutdown, lines 375-379: gather(return_exceptions=True) has returned when
\* every task has ended, however it ended; _file_watchers is cleared
ConfigShutdownGathered ==
    /\ cm_shutdown.pc = "gather"
    /\ \A p \in cm_file_watchers : watch_tasks[p].outcome # "running"
    /\ cm_file_watchers' = {}
    /\ cm_shutdown' = [cm_shutdown EXCEPT !.pc = "done"]
    /\ UNCHANGED <<cm_defaults, cm_config, cm_shared, cm_sources, cm_watchers, files, environ,
                   notified, cm_last, cm_nops, watch_tasks, cm_lock, reloads, cm_event_bus, bus_events>>
    /\ UNCHANGED <<discovered, depVars, plugVars, mgrVars, contVars, busVars>>

\* the plugin manager after initialize() with health monitoring, and the
\* configuration manager after load_all has started the watchers of a and b
InitLoops ==
    /\ LoadedManager
    /\ overlap = FALSE
    /\ health_task = RunningLoop
    /\ cm_defaults = <<>>
    /\ cm_config = <<>>
    /\ cm_shared = {}
    /\ cm_sources = <<>>
    /\ cm_watchers = <<>>
    /\ cm_file_watchers = SourceNames
    /\ files = <<>>
    /\ environ = {}
    /\ notified = <<>>
    /\ cm_last = NoConfigOp
    /\ cm_nops = 0
    /\ watch_tasks = [p \in SourceNames |-> RunningLoop]
    /\ cm_shutdown = NoShutdown
    /\ cm_lock = [holder |-> 0, waiting |-> <<>>]
    /\ reloads = <<>>
    /\ cm_event_bus = "none"
    /\ bus_events = NoEvents

NextLoops ==
    \/ \E t \in TaskIds : CallShutdown(t)
    \/ \E t \in TaskIds : ShutdownAfterTask(t)
    \/ \E t \in TaskIds : UnloadAfterStoppingEvent(t)
    \/ \E t \in TaskIds : UnloadAfterStop(t)
    \/ \E t \in TaskIds : UnloadAfterStoppedEvent(t)
    \/ \E t \in TaskIds : UnloadAfterErrorEvent(t)
    \/ HealthWake
    \/ \E raised \in BOOLEAN : HealthCheckAwaited(raised)
    \/ HealthPublished
    \/ HealthBackoffDone
    \/ HealthCancelled
    \/ \E path \in SourceNames, found \in {"same", "newer", "error"} : WatchWake(path, found)
    \/ \E path \in SourceNames : WatchReloaded(path)
    \/ \E path \in SourceNames : WatchBackoffDone(path)
    \/ \E path \in SourceNames : WatchCancelled(path)
    \/ CallConfigShutdown
    \/ ConfigShutdownGathered

SpecLoops == InitLoops /\ [][NextLoops]_vars

\* the loops of the model
Loops == <<health_task>> \o [i \in 1..Len(SetToSeq(SourceNames)) |-> watch_tasks[SetToSeq(SourceNames)[i]]]

\* C24: a loop that is cancelled at any of its awaits ends, and its task ends
\* by the return of the loop: no exception leaves the loop.
C24_CancelEndsLoop ==
    \A i \in 1..Len(Loops) :
        (Loops[i].cancel /\ Loops[i].outcome # "running") => Loops[i].outcome = "returned"

\* C25: a call of PluginManager.shutdown that finds the flag set, and a call of
\* ConfigManager.shutdown after one that has returned, return at once without
\* error: no event is published, no plugin is stopped, and the statuses, the
\* loaded set and the tasks of the loops are left as they were.  The steps
\* that cancel or end a loop change no plugin's status, and no plugin is
\* LOADING or STOPPING when shutdown has returned.
C25_ShutdownTwice ==
    /\ [][\A t \in TaskIds :
            (Begins(t, "shutdown") /\ shutdown_initiated)
            => /\ tasks'[t].pc = "done"
               /\ tasks'[t].res = "ok"
               /\ tasks'[t].npub = 0
               /\ tasks'[t].nstop = 0
               /\ UNCHANGED Effects
               /\ UNCHANGED <<shutdown_initiated, health_task, watch_tasks>>]_vars
    /\ [][(cm_shutdown'.calls = cm_shutdown.calls + 1 /\ cm_shutdown.calls >= 1)
          => /\ cm_shutdown'.pc = "done"
             /\ UNCHANGED Effects
             /\ UNCHANGED <<health_task, watch_tasks, cm_file_watchers>>]_vars
    /\ [][(health_task' # health_task \/ watch_tasks' # watch_tasks)
          => UNCHANGED <<plugins, load_order, insts>>]_vars
    /\ [](\A t \in TaskIds :
            ShutdownDone(t)
            => \A i \in 1..Len(insts) : insts[i].status \notin {"loading", "stopping"})

\* both managers have been shut down twice; the health-monitor task was
\* cancelled by the first call and the plugins were stopped by it
C25_Witness ==
    /\ \E t \in TaskIds : ShutdownDone(t) /\ tasks[t].initiated
    /\ cm_shutdown = [pc |-> "done", calls |-> 2]
    /\ health_task.cancel /\ health_task.outcome # "running"
    /\ \A p \in SourceNames : watch_tasks[p].cancel /\ watch_tasks[p].outcome # "running"
    /\ \A i \in 1..Len(insts) : insts[i].status = "stopped"

(***************************************************************************)
(* Overlapping reloads (SpecConfigConc): a configuration manager with or   *)
(* without event bus, two sources, one watcher.  load_all runs under the   *)
(* asyncio.Lock _lock; inside it the coroutine is suspended only where     *)
(* _notify_changes awaits publish_event, once for every changed key.       *)
(***************************************************************************)
ReloadIds == 1..MaxReloads

NoReload == [pc |-> "idle", op |-> "none", todo |-> <<>>, made |-> <<>>, merged |-> 0]

ReloadFrame ==
    /\ UNCHANGED <<cm_sources, cm_watchers, files, environ, notified, cm_last, cm_nops,
                   cm_defaults, watch_tasks, cm_shutdown, cm_event_bus>>
    /\ UNCHANGED <<discovered, depVars, plugVars, mgrVars, contVars, busVars>>

\* publish_event (events.py, lines 288-290) as _notify_changes calls it:
\* get_event_bus().publish(CONFIG_CHANGED, data), on the module's global bus
publish_event(events, change) ==
    [events EXCEPT !["global"] = Append(@, [type |-> "system.config_changed",
                                            key |-> change.key, old |-> change.old,
                                            new |-> change.new])]

\* _notify_changes, lines 278-284, for the change at the head of todo: every
\* watcher is called; then publish_event is awaited (lines 287-296)
notify_head(r) ==
    [r EXCEPT !.made = @ \o call_watchers(cm_watchers, Head(r.todo).key, Head(r.todo).old,
                                          Head(r.todo).new),
              !.todo = Tail(@),
              !.pc = "notify"]

\* _notify_changes of a manager whose _event_bus is None: line 287 skips the
\* await, and the loop runs to its end
RECURSIVE notify_all(_)
notify_all(r) == IF r.todo = <<>> THEN r ELSE notify_all([notify_head(r) EXCEPT !.pc = r.pc])

\* load_all, lines 122-123 and the end of the with block: the file watchers
\* are started and _lock is released
LeaveLoadAll(t, r) ==
    /\ reloads' = [reloads EXCEPT ![t] = [r EXCEPT !.pc = "done"]]
    /\ cm_lock' = [cm_lock EXCEPT !.holder = 0]
    /\ cm_file_watchers' =
           cm_file_watchers \cup {cm_sources[i].path : i \in {j \in 1..Len(cm_sources) : cm_sources[j].watch}}

\* load_all, lines 96-120, with _lock taken: the sources and the environment
\* are merged, _config is replaced, and the first change is notified
EnterLoadAll(t, r, waiting) ==
    LET changes == SetToSeq(find_changes(cm_config, load_all_config, <<>>))
        r1 == [r EXCEPT !.todo = changes, !.merged = @ + 1]
    IN  /\ cm_config' = load_all_config
        /\ cm_shared' = DOMAIN cm_defaults \ Overridden
        /\ IF changes = <<>> \/ cm_event_bus = "none"
           THEN /\ LeaveLoadAll(t, notify_all(r1))
                /\ cm_lock'.waiting = waiting
                /\ UNCHANGED bus_events
           ELSE /\ reloads' = [reloads EXCEPT ![t] = notify_head(r1)]
                /\ bus_events' = publish_event(bus_events, Head(changes))
                /\ cm_lock' = [holder |-> t, waiting |-> waiting]
                /\ UNCHANGED cm_file_watchers
        /\ ReloadFrame

\* await load_all() or await reload_source(name), lines 94-96 and 258-266:
\* reload_source of an unknown name returns; Lock.acquire returns at once when
\* the lock is free and nobody waits for it, and waits in line otherwise
CallLoadAll(t, op) ==
    /\ reloads[t].pc = "idle"
    /\ LET r == [reloads[t] EXCEPT !.op = op]
       IN  IF op \notin {"load_all"} \cup {cm_sources[i].name : i \in 1..Len(cm_sources)}
           THEN /\ reloads' = [reloads EXCEPT ![t] = [r EXCEPT !.pc = "done"]]
                /\ UNCHANGED <<cm_config, cm_shared, cm_lock, cm_file_watchers, bus_events>>
                /\ ReloadFrame
           ELSE IF cm_lock.holder = 0 /\ cm_lock.waiting = <<>>
           THEN EnterLoadAll(t, r, <<>>)
           ELSE /\ reloads' = [reloads EXCEPT ![t] = [r EXCEPT !.pc = "wait"]]
                /\ cm_lock' = [cm_lock EXCEPT !.waiting = Append(@, t)]
                /\ UNCHANGED <<cm_config, cm_shared, cm_file_watchers, bus_events>>
                /\ ReloadFrame

\* the first of those that wait for _lock is woken when it is released
LockAcquired(t) ==
    /\ reloads[t].pc = "wait"
    /\ cm_lock.holder = 0
    /\ cm_lock.waiting # <<>>
    /\ Head(cm_lock.waiting) = t
    /\ EnterLoadAll(t, reloads[t], Tail(cm_lock.waiting))

\* _notify_changes resumes when publish_event has returned: the next change
\* is notified, or load_all ends
NotifyResume(t) ==
    /\ reloads[t].pc = "notify"
    /\ IF reloads[t].todo = <<>>
       THEN /\ LeaveLoadAll(t, reloads[t])
            /\ cm_lock'.waiting = cm_lock.waiting
            /\ UNCHANGED bus_events
       ELSE /\ reloads' = [reloads EXCEPT ![t] = notify_head(reloads[t])]
            /\ bus_events' = publish_event(bus_events, Head(reloads[t].todo))
            /\ UNCHANGED <<cm_lock, cm_file_watchers>>
    /\ UNCHANGED <<cm_config, cm_shared>>
    /\ ReloadFrame

\* set, called while reloads are in progress
SetOnce(key, value) ==
    /\ cm_nops < MaxSets
    /\ Set(key, value)

\* a configuration manager to which the sources a and b were added and on
\* which one watcher was registered
InitConfigConc ==
    /\ cm_defaults = defaults
    /\ cm_config = defaults
    /\ cm_shared = DOMAIN defaults
    /\ cm_sources = add_source(add_source(<<>>, ConfigSource("a", 200)), ConfigSource("b", 100))
    /\ cm_watchers = <<[id |-> 1, raises |-> FALSE]>>
    /\ cm_file_watchers = {}
    /\ files \in [SourceNames -> {NoFile} \cup {File(c) : c \in FileContents}]
    /\ files["b"] = NoFile
    /\ environ = {}
    /\ notified = <<>>
    /\ cm_last = NoConfigOp
    /\ cm_nops = 0
    /\ watch_tasks = <<>>
    /\ cm_shutdown = NoShutdown
    /\ cm_lock = [holder |-> 0, waiting |-> <<>>]
    /\ reloads = [t \in ReloadIds |-> NoReload]
    /\ cm_event_bus \in {"none"} \cup BusNames
    /\ bus_events = NoEvents
    /\ discovered = [n \in {} |-> <<>>]
    /\ DepsAtRest
    /\ PluginAtRest
    /\ ManagerAtRest
    /\ ContainerAtRest
    /\ BusAtRest

NextConfigConc ==
    \/ \E t \in ReloadIds, op \in {"load_all", "a", "c"} : CallLoadAll(t, op)
    \/ \E t \in ReloadIds : LockAcquired(t)
    \/ \E t \in ReloadIds : NotifyResume(t)
    \/ \E key \in SetKeys, value \in SetValues : SetOnce(key, value)
    \/ \E file \in {NoFile} \cup {File(c) : c \in FileContents} : WriteFile("b", file)

SpecConfigConc == InitConfigConc /\ [][NextConfigConc]_vars

\* the merge of the built-in defaults, the sources and the environment
CompleteMerge ==
    LET new_config == merge_sources(defaults, cm_sources)
        env_config == load_environment
    IN  IF env_config # <<>> THEN merge_config(new_config, env_config) ELSE new_config

\* reload t is inside load_all, between taking and releasing _lock
InLoadAll(t) == reloads[t].pc = "notify"

\* reload t merges, replaces _config or calls watchers in this step
ReloadActs(t) == reloads'[t].merged # reloads[t].merged \/ reloads'[t].made # reloads[t].made

\* the reloads run one at a time: the merge, the replacement of _config and
\* the notifications of one load_all are not interleaved with another's, and
\* the configuration a reload installs is the merge of what _defaults holds,
\* the sources and the environment
ReloadsSerialized ==
    /\ [](\A t, u \in ReloadIds : (InLoadAll(t) /\ InLoadAll(u)) => t = u)
    /\ [](\A t \in ReloadIds : InLoadAll(t) => cm_lock.holder = t)
    /\ [][\A t, u \in ReloadIds : (ReloadActs(t) /\ u # t) => ~InLoadAll(u)]_vars
    /\ [][\A t \in ReloadIds :
            reloads'[t].merged # reloads[t].merged => cm_config' = load_all_config]_vars

\* C23: overlapping load_all and reload_source calls run one at a time: the
\* merge, the replacement of the configuration and the notifications of one
\* are not interleaved with those of another, and the configuration that a
\* reload installs is the complete merge of the defaults, every source and the
\* environment.
C23_ReloadsExclusive ==
    /\ [](\A t, u \in ReloadIds : (InLoadAll(t) /\ InLoadAll(u)) => t = u)
    /\ [][\A t, u \in ReloadIds : (ReloadActs(t) /\ u # t) => ~InLoadAll(u)]_vars
    /\ [][\A t \in ReloadIds :
            reloads'[t].merged # reloads[t].merged => cm_config' = CompleteMerge]_vars


\* the changes the reloads have notified the watcher of (there is one watcher)
NotifiedChanges ==
    {[key |-> c.key, old |-> c.old, new |-> c.new] :
        c \in UNION {Range(reloads[t].made) : t \in ReloadIds}}

NotifiedCount ==
    LET RECURSIVE Sum(_)
        Sum(T) == IF T = {} THEN 0
                  ELSE LET t == CHOOSE t \in T : TRUE
                       IN  Len(reloads[t].made) + Sum(T \ {t})
    IN  Sum(ReloadIds)

\* the events on the bus b are the changes notified so far, one event each
EventsAre(b) ==
    /\ Len(bus_events[b]) = NotifiedCount
    /\ {[key |-> e.key, old |-> e.old, new |-> e.new] : e \in Range(bus_events[b])}
       = NotifiedChanges
    /\ \A e \in Range(bus_events[b]) : e.type = "system.config_changed"

\* a manager with an event bus publishes one system.config_changed event for
\* every changed key on the global bus, and nothing anywhere else; a manager
\* without event bus publishes nothing
EventsOnGlobalBus ==
    /\ cm_event_bus = "none" => bus_events = NoEvents
    /\ cm_event_bus # "none" => EventsAre("global") /\ bus_events["B"] = <<>>

\* C35: a manager constructed with the event bus B publishes one
\* system.config_changed event for every changed key on B, where the handlers
\* of B receive it and the history of B records it, and a manager constructed
\* without event bus publishes no event.
C35_EventsOnOwnBus ==
    /\ cm_event_bus = "none" => bus_events = NoEvents
    /\ cm_event_bus # "none" => EventsAre(cm_event_bus)

(***************************************************************************)
(* Callables subscribed more than once (events.py)                         *)
(*                                                                         *)
(* subscribe and subscribe_global wrap the callable they are given in a    *)
(* new EventHandler, so one callable may stand in several subscriptions,   *)
(* to one type, to several, and globally; unsubscribe compares callables.  *)
(***************************************************************************)
CallbackIds == 1..MaxCallbacks

\* what a subscription of the callable id may look like: the callable 1 is
\* subscribed with HIGH priority, the callable 2 is a coroutine function and
\* subscribed with LOW priority, no callable raises
CallbackKinds(id) ==
    {EventHandler(id, IF id = 1 THEN 75 ELSE 25, id = 2, o, FALSE, "none") : o \in BOOLEAN}

\* unsubscribe that takes out the first subscription of the callable only
unsubscribe_first(b, type, id) ==
    LET hs == IF type \in DOMAIN b.handlers THEN b.handlers[type] ELSE <<>>
        at == {i \in 1..Len(hs) : hs[i].id = id}
        i == CHOOSE i \in at : \A j \in at : i <= j
    IN  IF at = {} THEN [b |-> b, result |-> FALSE]
        ELSE [b |-> [b EXCEPT !.handlers[type] = SubSeq(hs, 1, i - 1) \o SubSeq(hs, i + 1, Len(hs))],
              result |-> TRUE]

\* unsubscribe, lines 136-151
unsubscribe(b, type, id) ==
    IF type \notin DOMAIN b.handlers THEN [b |-> b, result |-> FALSE]
    ELSE LET original_count == Len(b.handlers[type])
             kept == SelectSeq(b.handlers[type], LAMBDA h : h.id # id)
             removed == original_count - Len(kept)
         IN  [b |-> [b EXCEPT !.handlers[type] = kept], result |-> removed > 0]

\* subscribe(event_type, handler, ...) with a callable that may be subscribed already
SubscribeCallback(type, id, kind) ==
    /\ nsubs < MaxCallbackSubs
    /\ nsubs' = nsubs + 1
    /\ LET old == IF type \in DOMAIN handlers THEN handlers[type] ELSE <<>>
       IN  BusSet([Bus EXCEPT !.handlers = (type :> SortByPriority(Append(old, kind))) @@ @,
                              !.unsub = NoUnsub])

\* subscribe_global(handler, ...) with a callable that may be subscribed already
SubscribeGlobalCallback(id, kind) ==
    /\ nsubs < MaxCallbackSubs
    /\ ~kind.once
    /\ nsubs' = nsubs + 1
    /\ BusSet([Bus EXCEPT !.global_handlers = SortByPriority(Append(@, kind)),
                          !.unsub = NoUnsub])

\* unsubscribe(event_type, handler), whether or not the callable is subscribed
CallUnsubscribe(type, id) ==
    /\ LET r == unsubscribe(Bus, type, id)
       IN  BusSet([r.b EXCEPT !.unsub = [type |-> type, id |-> id, result |-> r.result,
                                         npub |-> stats.events_published]])
    /\ UNCHANGED nsubs

InitBusCallbacks ==
    /\ capacity = MaxCapacity
    /\ handlers = [t \in {} |-> <<>>]
    /\ global_handlers = <<>>
    /\ stats = NoStats
    /\ pubs = [p \in PubIds |-> NoPublish]
    /\ calls = <<>>
    /\ published = <<>>
    /\ nsubs = 0
    /\ unsub = NoUnsub
    /\ discovered = [n \in {} |-> <<>>]
    /\ DepsAtRest
    /\ PluginAtRest
    /\ ManagerAtRest
    /\ ContainerAtRest
    /\ ConfigAtRest

NextBusCallbacks ==
    \/ \E type \in SubscribedTypes, id \in CallbackIds :
          \E kind \in CallbackKinds(id) : SubscribeCallback(type, id, kind)
    \/ \E id \in CallbackIds : \E kind \in CallbackKinds(id) : SubscribeGlobalCallback(id, kind)
    \/ \E type \in EventTypes, id \in CallbackIds : CallUnsubscribe(type, id)
    \/ \E p \in PubIds, type \in EventTypes : Publish(p, type)
    \/ \E p \in PubIds : HandlerReturns(p)

SpecBusCallbacks == InitBusCallbacks /\ [][NextBusCallbacks]_vars


(***************************************************************************)
(* Claims about unsubscribe (SpecBusCallbacks)                             *)
(***************************************************************************)
CallbacksOf(hs) == {hs[k].id : k \in 1..Len(hs)}

\* the subscriptions of the callable id to the event type
SubscriptionsTo(hs, type, id) ==
    IF type \in DOMAIN hs THEN {k \in 1..Len(hs[type]) : hs[type][k].id = id} ELSE {}

\* unsubscribe(type, id) has returned in this step
Unsubscribed(type, id) == unsub' # unsub /\ unsub'.type = type /\ unsub'.id = id

\* publish number p, of an event of the type, has begun in this step
PublishBegun(p, type) == pubs[p].pc = "idle" /\ pubs'[p].pc # "idle" /\ pubs'[p].event.type = type

\* the handler invocations of the publish calls that began after the
\* unsubscribe call and carry an event of its type
CallsAfterUnsub ==
    {k \in 1..Len(calls) : /\ calls[k].pub > unsub.npub
                           /\ pubs[calls[k].pub].event.type = unsub.type}

\* C34 as claimed: once unsubscribe(event_type, handler) has returned True, no
\* publish that begins afterwards invokes the callback for an event of that
\* type (as long as the callback is not subscribed anew).
C34_Original ==
    unsub.result => \A k \in CallsAfterUnsub : calls[k].h # unsub.id

\* C34 as amended: unsubscribe(event_type, handler) returns True exactly when
\* the callback had at least one subscription to that type, removes all of
\* them and nothing else, so that an immediately repeated unsubscribe returns
\* False; a publish that begins while the callback has no subscription to the
\* type of the event and no global subscription does not invoke it, and a
\* publish invokes no handler outside the list it collected when it began.
C34_Unsubscribe ==
    [][/\ \A t \in EventTypes, i \in CallbackIds :
            /\ Unsubscribed(t, i)
               => /\ unsub'.result = (SubscriptionsTo(handlers, t, i) # {})
                  /\ SubscriptionsTo(handlers', t, i) = {}
                  /\ (unsub.type = t /\ unsub.id = i) => ~unsub'.result
                  /\ global_handlers' = global_handlers
                  /\ DOMAIN handlers' = DOMAIN handlers
                  /\ \A t2 \in DOMAIN handlers :
                        handlers'[t2] = IF t2 = t
                                        THEN SelectSeq(handlers[t2], LAMBDA h : h.id # i)
                                        ELSE handlers[t2]
            /\ \A p \in PubIds :
                  (/\ PublishBegun(p, t)
                   /\ SubscriptionsTo(handlers, t, i) = {}
                   /\ i \notin CallbacksOf(global_handlers))
                  => i \notin CallbacksOf(pubs'[p].snapshot)
       /\ \A k \in (Len(calls) + 1)..Len(calls') :
             calls'[k].h \in CallbacksOf(pubs'[calls'[k].pub].snapshot)]_vars

\* an unsubscribe has removed a callback that an earlier publish had invoked,
\* and a publish of the same type that began afterwards has ended without
\* invoking it, while invoking another handler
C34_Witness ==
    /\ unsub.result
    /\ \E k \in 1..Len(calls) : /\ calls[k].pub <= unsub.npub
                                /\ calls[k].h = unsub.id
                                /\ pubs[calls[k].pub].event.type = unsub.type
    /\ \E p \in PubIds : /\ p > unsub.npub
                         /\ pubs[p].pc = "done"
                         /\ pubs[p].event.type = unsub.type
                         /\ \E k \in 1..Len(calls) : calls[k].pub = p
                         /\ \A k \in 1..Len(calls) : calls[k].pub = p => calls[k].h # unsub.id


(***************************************************************************)
(* Claims about the bookkeeping of the manager between calls (SpecMgr)     *)
(***************************************************************************)
\* no call on the manager is in progress
Quiet == \A t \in TaskIds : ~Active(t)

LoadedSet == {n \in MgrNames : plugins[n] # 0}

\* the load order lists the loaded names, each once
LoadOrderMatches ==
    /\ Range(load_order) = LoadedSet
    /\ \A i, j \in 1..Len(load_order) : load_order[i] = load_order[j] => i = j

\* the names of a type registry are loaded and map to the loaded instance
RegistryMatches(registry) ==
    \A n \in MgrNames : registry[n] # 0 => registry[n] = plugins[n]

\* C36: whenever no call on the manager is in progress, the load order lists
\* exactly the names of the loaded set, each once, and every name in a type
\* registry (agents, embeddings, memory providers) is in the loaded set and
\* maps to the same instance there, whatever calls were made and however they
\* ended.
C36_Bookkeeping ==
    Quiet => /\ LoadOrderMatches
             /\ RegistryMatches(agents)
             /\ RegistryMatches(embeddings)
             /\ RegistryMatches(memory_providers)

\* the part of C36 about the load order
C36_LoadOrderPart == Quiet => LoadOrderMatches

\* the dependencies the manifest of n lists are loaded
DepsLoaded(n) == \A d \in Range(discovered[n]) : d \in MgrNames /\ plugins[d] # 0

\* C37 as claimed: whenever no call on the manager is in progress, every
\* loaded plugin has all the dependencies of its manifest loaded.
C37_Original ==
    Quiet => \A n \in LoadedSet : DepsLoaded(n)

\* C37 as amended: when load_plugins has returned, every plugin of the
\* dependency closure of the request is loaded and so are the dependencies its
\* manifest lists; this is a property of the state load_plugins leaves, which
\* later unload_plugin calls need not keep.
C37_DepsLoaded ==
    \A t \in TaskIds :
        (tasks[t].pc = "done" /\ tasks[t].op = "load_plugins" /\ tasks[t].res = "ok")
        => \A n \in Range(tasks[t].arg) : n \in LoadedSet /\ DepsLoaded(n)

\* load_plugins(["B"]) has returned where B depends on A: both are loaded
C37_Witness ==
    \E t \in TaskIds :
        /\ tasks[t].pc = "done"
        /\ tasks[t].op = "load_plugins"
        /\ tasks[t].res = "ok"
        /\ "B" \in Range(tasks[t].arg)
        /\ discovered["B"] = <<"A">>
        /\ LoadedSet = {"A", "B"}


(***************************************************************************)
(* Claims about the container between top-level calls (SpecContainer)      *)
(***************************************************************************)
\* the types the construction of U resolves: the parameters of its __init__
\* when U is registered with its class
Needs(U) ==
    IF U \in CTypes /\ services[U] # NoService /\ services[U].kind = "class"
    THEN {cworld[U][i].type : i \in 1..Len(cworld[U])}
    ELSE {}

NeedsOf(Ts) == Ts \cup UNION {Needs(U) : U \in Ts}

\* every type a resolve of one of Ts may come to (there are three keys)
NeedsClosure(Ts) == NeedsOf(NeedsOf(NeedsOf(Ts)))

\* the construction of some type that a resolve of T may come to needs that
\* very type again
CircularFrom(T) == \E U \in NeedsClosure({T}) : U \in NeedsClosure(Needs(U))

\* a resolve(T) called from outside has come back in this step
ResolveReturns(T) ==
    /\ nops' = nops + 1
    /\ last'.op = "resolve"
    /\ last'.type = T

\* C38: a top-level resolve leaves _building as it found it, whether it
\* returns or raises, so _building is empty between top-level calls; and a
\* resolve meets a type in _building only when the constructors of the
\* registered classes really need one another in a circle, never because an
\* earlier resolve failed.
C38_BuildingRestored ==
    /\ [](building = {})
    /\ [][\A T \in CKeys : (ResolveReturns(T) /\ last'.hits > 0) => CircularFrom(T)]_vars

\* a resolve of S has raised from inside the resolve of a parameter of its
\* constructor, whose factory failed, without any circular dependency, and
\* _building is empty after it
C38_Witness ==
    /\ last.op = "resolve"
    /\ last.type = "S"
    /\ ~last.ok
    /\ last.hits = 0
    /\ Len(last.err) >= 2
    /\ last.err[Len(last.err)] = "factory_failed"
    /\ building = {}


\* C39: resolve(T) reflects the most recent registration of T: when T was
\* last registered with register_instance the next resolve(T) returns that
\* instance; otherwise the instance it returns has been constructed by the
\* implementation of the latest registration (at least one construction
\* since that registration), and it is a new instance whenever that
\* registration has not constructed before or is not a singleton one; it is
\* never an instance cached for an earlier registration of T.
C39_LatestRegistration ==
    [][\A T \in CTypes :
         Resolved(T)
         => IF services[T].kind = "lambda"
            THEN last'.val = services[T].inst
            ELSE /\ built'[T] >= 1
                 /\ (services[T].lifetime # "singleton" \/ built[T] = 0)
                    => last'.val \notin 1..Len(created)]_vars


(***************************************************************************)
(* Claims about the built-in defaults (SpecConfig)                         *)
(***************************************************************************)
\* the key plugins.auto_load as a path
AutoLoadPath == <<K_plugins, K_auto_load>>

\* C40: the built-in defaults are never modified: _defaults holds what
\* __init__ put there whatever set has been called with, and after load_all
\* the key plugins.auto_load, when no source file and no environment variable
\* provides it, holds its built-in default, so a value written there by set
\* has not survived the reload.
C40_DefaultsNeverModified ==
    /\ cm_defaults = defaults
    /\ (/\ cm_last.op = "load_all"
        /\ \A pr \in Providers : pr.layer > 0 => ~Covers(pr, AutoLoadPath))
       => get_path(cm_config, AutoLoadPath) = get_path(defaults, AutoLoadPath)

====
